---- MODULE Spec2Model ----
(***************************************************************************)
(* Timer / scheduler of the reservation form filler's background script    *)
(* (src/src/background/index.ts) with the storage wrappers of              *)
(* src/src/utils/storage.ts.                                               *)
(*                                                                         *)
(* Every async function is cut at its awaits.  One action is: the          *)
(* continuation of the previous await, the synchronous code that follows,  *)
(* and the issue of the next chrome.* call, whose effect on storage or on  *)
(* the alarm table is applied when it is issued.  Continuations that only  *)
(* resolve promises (microtasks) belong to the same action, because no     *)
(* other event handler can run between them.                               *)
(***************************************************************************)
EXTENDS Integers, FiniteSets, Sequences, TLC

\* ---------------------------------------------------------------- bounds
MaxTime == 3
MaxSchedules == 2
MaxCancels == 1
MaxStartups == 1
MaxFires == 1
\* at most this many calls and handler runs overlap
MaxInFlight == 3
\* the same, in the behaviours checked for progress
MaxLiveInFlight == 2

\* ------------------------------------------------------ program constants
DefaultLeadTimeMs == 200
DefaultMaxRefreshRetries == 3

\* ------------------------------------------------------------- data types
\* chrome.storage.local holds { activeTimer: ActiveTimer | null }.
\* `id` is not a field of ActiveTimer: it is history, the number of the
\* scheduleTimer call that built the Timer, and no operation reads it.
Null ==
  [alarmName |-> -1, dropTime |-> -1, scheduledTime |-> -1,
   status |-> "null", tabId |-> -1, id |-> 0]

Statuses == {"scheduled", "running", "completed", "failed", "cancelled"}

\* tabId 0 stands for a missing (falsy) tab id.
NoTabId == 0
TheTab == 1

LeadTimes == {-1, 0}

\* a drop time whose default lead time lets the alarm fire within MaxTime
DropTimes == {DefaultLeadTimeMs + MaxTime - 1}

\* payload of a SCHEDULE_TIMER message: preferences.dropTime (may be
\* absent), preferences.leadTimeMs and the tab id.
Requests ==
  [hasDropTime : {TRUE}, dropTime : DropTimes, leadTimeMs : LeadTimes,
   tabId : {TheTab}]
  \cup [hasDropTime : {TRUE}, dropTime : DropTimes, leadTimeMs : {0},
        tabId : {NoTabId}]
  \cup [hasDropTime : {FALSE}, dropTime : {0}, leadTimeMs : {0},
        tabId : {TheTab}]

NoRequest == [hasDropTime |-> FALSE, dropTime |-> 0, leadTimeMs |-> 0, tabId |-> 0]

\* the auto-refresh fields of the preferences kept in chrome.storage.sync
PrefsChoices ==
  [autoRefreshOnNoSlots : BOOLEAN, maxRefreshRetries : {DefaultMaxRefreshRetries}]

\* ------------------------------------------------------------------ state
VARIABLES
  overlapCap,     \* environment: how many calls and runs may overlap
  now,            \* Date.now()
  storage,        \* chrome.storage.local activeTimer (Null when absent)
  alarms,         \* armed chrome.alarms: set of [name, when, owner]
  sched,          \* the scheduleTimer calls (SCHEDULE_TIMER requests)
  cancel,         \* the cancelTimer calls (CANCEL_TIMER requests)
  handler,        \* the handleAlarmTrigger runs, one per alarm event
  startup,        \* the onStartup listener runs
  lastSched,      \* history: Timer returned by the last undisturbed schedule
  prevSched,      \* history: the one returned just before it, back to back
  cancelQuiet,    \* history: an undisturbed cancel of a scheduled Timer ended
  cancelledIds,   \* history: the Timers whose cancelTimer call has completed
  wait,           \* one call of waitForTabReload, step by step
  probe,          \* one call of tryMultipleDates, step by step
  fill,           \* one call of an adapter's fill entry point, step by step
  pick,          \* one search for the time slot to click
  built,         \* one call of buildDesiredDatesList
  book,          \* one call of waitForAndClickBookButton
  popup,         \* the popup's activeTimer state and what it polls
  plainWait,     \* one call of the waitForTabReload without timeout
  reply,         \* one AUTO_FILL_FORM message in the content-script listener
  slot,          \* one call of OpenTable's waitForAndClickTimeSlot
  resyClick,     \* one call of Resy's clickTimeSlot
  deferred,      \* scheduleTimer over a cancelTimer that defers the deletion
  nav            \* the navigation at the end of one scheduleTimer call

\* the scheduler as a whole, whose steps are single awaits
main ==
  <<overlapCap, now, storage, alarms, sched, cancel, handler, startup,
    lastSched, prevSched, cancelQuiet, cancelledIds>>

\* the functions followed in detail, one call at a time
aside == <<wait, probe, fill, pick, built, book, popup, plainWait, reply, slot, resyClick, deferred, nav>>

vars == <<main, aside>>

\* ------------------------------------------------------- pure operations
\* a clear that leaves the alarm armed
ClearAlarm_Kept(al, name) == al

\* chrome.alarms.clear(name): no-op when no such alarm is armed.
ClearAlarm(al, name) == {a \in al : a.name # name}

\* chrome.alarms.create(name, {delayInMinutes}): replaces an alarm of the
\* same name; the delay is scheduledTime - now, so it is due at `when`.
\* `owner` is history: the Timer the alarm was armed for.
CreateAlarm(al, name, when, owner) ==
  ClearAlarm(al, name) \cup {[name |-> name, when |-> when, owner |-> owner]}

AlarmOf(t) == [name |-> t.alarmName, when |-> t.scheduledTime, owner |-> t.id]

\* cancelTimer: activeTimer.status = 'cancelled'
CancelledCopy(t) == [t EXCEPT !.status = "cancelled"]

\* a delete that leaves the record in place
ClearedValue_Kept(st) == st

\* clearActiveTimer(): saveActiveTimer(null)
ClearedValue(st) == Null

\* preferences.leadTimeMs || 200
EffectiveLead(lead) == IF lead = 0 THEN DefaultLeadTimeMs ELSE lead

\* new Date(dropTime.getTime() - leadTimeMs)
ScheduledTimeOf(req) == req.dropTime - EffectiveLead(req.leadTimeMs)

\* the ActiveTimer built by scheduleTimer; the alarm name is
\* `tock-auto-search-${Date.now()}`, kept as its numeric suffix.
NewTimer(req, t, i) ==
  [alarmName |-> t, dropTime |-> req.dropTime,
   scheduledTime |-> ScheduledTimeOf(req), status |-> "scheduled",
   tabId |-> req.tabId, id |-> i]

\* a handler that checks only that a record exists
StaleAlarm_AnyName(at, name) == at = Null

\* handleAlarmTrigger: !activeTimer || activeTimer.alarmName !== alarmName
StaleAlarm(at, name) == at = Null \/ at.alarmName # name

WithStatus(t, s) == [t EXCEPT !.status = s]

\* a handler whose catch block saves nothing
FinalStatus_Uncaught(result) ==
  IF result = "success" THEN "completed"
  ELSE IF result = "datesThrew" THEN "running" ELSE "failed"

\* outcome of attemptFormFill mapped to the status handleAlarmTrigger saves
FinalStatus(result) == IF result = "success" THEN "completed" ELSE "failed"

\* getTimerStatus(): the answer to GET_TIMER_STATUS
GetTimerStatus == storage

\* ---------------------------------------------------------- process state
IdleSched ==
  [pc |-> "idle", req |-> NoRequest, at |-> Null, timer |-> Null,
   alone |-> FALSE, preArmed |-> FALSE, resp |-> "none"]

IdleCancel == [pc |-> "idle", at |-> Null, alone |-> FALSE]

IdleHandler ==
  [pc |-> "idle", alarmName |-> -1, at |-> Null, autoRefresh |-> FALSE,
   maxRefresh |-> 0, reloads |-> 0, adapterCalls |-> 0, late |-> FALSE]

\* `lost` and `expired` are history: the loaded Timer's alarm was not armed
\* when the browser started, and the Timer such a run discarded
IdleStartup ==
  [pc |-> "idle", at |-> Null, hasAlarm |-> FALSE, lost |-> FALSE,
   expired |-> 0]

Resting == {"idle", "done", "killed"}

NobodyInFlight ==
  /\ \A i \in DOMAIN sched : sched[i].pc \in Resting
  /\ \A c \in DOMAIN cancel : cancel[c].pc \in Resting
  /\ \A h \in DOMAIN handler : handler[h].pc \in Resting
  /\ \A s \in DOMAIN startup : startup[s].pc \in Resting

InFlight(procs) == Cardinality({p \in DOMAIN procs : procs[p].pc \notin Resting})

\* one more call or handler run may overlap with those in flight
RoomToStart ==
  InFlight(sched) + InFlight(cancel) + InFlight(handler) + InFlight(startup)
    < overlapCap

\* another operation starts: the calls in flight no longer run on their own
Disturbed(procs) == [p \in DOMAIN procs |-> [procs[p] EXCEPT !.alone = FALSE]]

\* the browser restarts: whatever was in flight is gone
Killed(procs, idle) ==
  [p \in DOMAIN procs |->
     IF procs[p].pc \in Resting THEN procs[p]
     ELSE [idle EXCEPT !.pc = "killed"]]

\* calls and runs are numbered in the order they start
NextFree(procs, p) ==
  /\ procs[p].pc = "idle"
  /\ \A q \in DOMAIN procs : q < p => procs[q].pc # "idle"

\* no call of waitForTabReload has been made
IdleWait ==
  [pc |-> "idle", completed |-> FALSE, timeoutArmed |-> FALSE,
   listening |-> FALSE, settleArmed |-> FALSE, resolves |-> 0, rejects |-> 0,
   removes |-> 0, updates |-> <<>>, sent |-> 0, status |-> "scheduled",
   issued |-> FALSE]

\* the calendar dates a run can ask for or a page can show: 1..MaxDates,
\* in calendar order (the order of their YYYY-MM-DD strings)
MaxDates == 3
Dates == 1..MaxDates

\* the longest list of desired dates handed to tryMultipleDates
MaxRequested == 3

\* one day button of the calendar, by the class names the selectors test
Absent == [present |-> FALSE, avail |-> FALSE, blocked |-> FALSE, inMonth |-> FALSE]
Cells ==
  { Absent,
    [present |-> TRUE, avail |-> TRUE, blocked |-> FALSE, inMonth |-> TRUE],
    [present |-> TRUE, avail |-> TRUE, blocked |-> FALSE, inMonth |-> FALSE],
    [present |-> TRUE, avail |-> TRUE, blocked |-> TRUE, inMonth |-> TRUE],
    [present |-> TRUE, avail |-> FALSE, blocked |-> TRUE, inMonth |-> TRUE] }

\* no call of tryMultipleDates has been made
IdleProbe ==
  [pc |-> "idle", adapter |-> "tock", desired |-> <<>>,
   calendar |-> [d \in Dates |-> Absent], time |-> <<>>,
   available |-> <<>>, toTry |-> <<>>, i |-> 0, clicked |-> <<>>,
   found |-> 0, activated |-> 0, result |-> "none"]

\* no fill entry point has been called
IdleFill ==
  [pc |-> "idle", adapter |-> "tock", searchPage |-> FALSE, attempts |-> 0,
   late |-> FALSE, clicked |-> 0, result |-> "none"]

\* no time slot has been looked for
IdlePick ==
  [pc |-> "idle", adapter |-> "tock", labels |-> <<>>, time |-> <<0, 0>>,
   chosen |-> 0]

\* buildDesiredDatesList has not been called
IdleBuilt ==
  [pc |-> "idle", date |-> 0, selectedDates |-> <<>>,
   useFirstAvailableAfter |-> FALSE, hasMaxDays |-> FALSE, maxDaysToScan |-> 0,
   zone |-> [before |-> 0, after |-> 0, switchDay |-> 0],
   threw |-> FALSE, list |-> <<>>,
   twinFlag |-> FALSE, twinHasMax |-> FALSE, twinRadius |-> 0, twin |-> <<>>]

\* waitForAndClickBookButton has not been called
IdleBook ==
  [pc |-> "idle", attempts |-> 0, late |-> FALSE, observing |-> FALSE,
   pollArmed |-> FALSE, timeoutArmed |-> FALSE, resolved |-> "none",
   clicks |-> 0, lookupsAfter |-> 0]

\* the popup is closed; nothing is persisted
IdlePopup ==
  [pc |-> "closed", activeTimer |-> Null, persisted |-> Null,
   polled |-> Null, polls |-> 0]

\* the waitForTabReload that has no timeout has not been called
IdlePlainWait ==
  [pc |-> "idle", listening |-> FALSE, settleArmed |-> FALSE, resolves |-> 0,
   updates |-> <<>>]

\* the content script has received no AUTO_FILL_FORM message
IdleReply ==
  [pc |-> "idle", site |-> "none", href |-> <<>>, platform |-> "none",
   adapter |-> "none", wrapped |-> FALSE, dates |-> "absent",
   timed |-> FALSE, inner |-> FALSE, threw |-> FALSE, settled |-> "none",
   responses |-> 0, success |-> "none"]

\* OpenTable's waitForAndClickTimeSlot has not been called
IdleSlot ==
  [pc |-> "idle", resolved |-> FALSE, observing |-> FALSE,
   timeoutArmed |-> FALSE, pollArmed |-> FALSE, attempts |-> 0, clicks |-> 0,
   settles |-> 0, value |-> "none", by |-> "none", late |-> 0,
   mutations |-> 0]

\* Resy's clickTimeSlot and clickReserveButton have not been called; the
\* fields of clickReserveButton are those that start with `reserve`
IdleResyClick ==
  [pc |-> "idle", observing |-> FALSE, timeoutArmed |-> FALSE,
   resolved |-> "none", clicked |-> <<>>, clicksAfter |-> 0, mutations |-> 0,
   reservePc |-> "idle", reserveObserving |-> FALSE,
   reserveTimeoutArmed |-> FALSE, reserveResolved |-> "none",
   reserveRetries |-> 0, reserveRequests |-> 0, reserveClicks |-> 0]

\* no activeTimer in chrome.storage.local, in the background script whose
\* cancelTimer defers the deletion
NoRecord == [alarmName |-> 0, status |-> "null"]

\* the background script whose cancelTimer defers the deletion: nothing is
\* persisted, no alarm is armed, no scheduleTimer call has been made
IdleDeferred ==
  [pc |-> "idle", request |-> "none", record |-> NoRecord,
   loaded |-> NoRecord, armed |-> {}, pending |-> 0, calls |-> 0,
   running |-> 0,
   found |-> {}, missed |-> {}, returned |-> {}]

\* no URL: the tab was not navigated, or the looked-up tab has none
NoUrl == [host |-> <<>>, path |-> <<>>, query |-> <<>>]

\* scheduleTimer has not reached its saveActiveTimer
IdleNav ==
  [pc |-> "idle", lookup |-> "none", url |-> NoUrl,
   prefs |-> [date |-> "", time |-> "", partySize |-> "undefined"],
   persisted |-> "null", armed |-> FALSE, target |-> NoUrl,
   navigatedTo |-> NoUrl, updated |-> "none", caught |-> FALSE,
   returned |-> "none"]

AsideIdle == wait = IdleWait /\ probe = IdleProbe /\ fill = IdleFill
  /\ pick = IdlePick
  /\ built = IdleBuilt
  /\ book = IdleBook
  /\ popup = IdlePopup
  /\ plainWait = IdlePlainWait
  /\ reply = IdleReply
  /\ slot = IdleSlot
  /\ resyClick = IdleResyClick
  /\ deferred = IdleDeferred
  /\ nav = IdleNav

Quiet ==
  /\ now = 0
  /\ storage = Null
  /\ alarms = {}
  /\ sched = [i \in 1..MaxSchedules |-> IdleSched]
  /\ cancel = [c \in 1..MaxCancels |-> IdleCancel]
  /\ handler = [h \in 1..MaxFires |-> IdleHandler]
  /\ startup = [s \in 1..MaxStartups |-> IdleStartup]
  /\ lastSched = Null
  /\ prevSched = Null
  /\ cancelQuiet = FALSE
  /\ cancelledIds = {}

Init == overlapCap = MaxInFlight /\ Quiet /\ AsideIdle

\* ------------------------------------------------------------------ clock
Tick ==
  /\ now < MaxTime
  /\ now' = now + 1
  /\ UNCHANGED <<aside, overlapCap, storage, alarms, sched, cancel, handler, startup,
                 lastSched, prevSched, cancelQuiet, cancelledIds>>

\* ---------------------------------------------------------- scheduleTimer
\* SCHEDULE_TIMER arrives: scheduleTimer starts with `await cancelTimer()`,
\* whose first act is loadActiveTimer().
SchedStart(i, req) ==
  /\ NextFree(sched, i)
  /\ RoomToStart
  /\ sched' =
       [Disturbed(sched) EXCEPT ![i] =
          [IdleSched EXCEPT !.pc = "cancelLoaded", !.req = req,
             !.at = storage, !.alone = NobodyInFlight,
             !.preArmed = (\E a \in alarms : a.name = storage.alarmName)]]
  /\ cancel' = Disturbed(cancel)
  /\ lastSched' = IF NobodyInFlight THEN lastSched ELSE Null
  /\ prevSched' = Null
  /\ UNCHANGED <<aside, overlapCap, now, storage, alarms, handler, startup,
                 cancelQuiet, cancelledIds>>

\* cancelTimer inside scheduleTimer: chrome.alarms.clear(activeTimer.alarmName)
SchedCancelClear(i) ==
  /\ sched[i].pc = "cancelLoaded"
  /\ sched[i].at # Null
  /\ alarms' = ClearAlarm(alarms, sched[i].at.alarmName)
  /\ sched' = [sched EXCEPT ![i].pc = "cancelCleared"]
  /\ UNCHANGED <<aside, overlapCap, now, storage, cancel, handler, startup,
                 lastSched, prevSched, cancelQuiet, cancelledIds>>

\* activeTimer.status = 'cancelled'; saveActiveTimer(activeTimer)
SchedCancelSave(i) ==
  /\ sched[i].pc = "cancelCleared"
  /\ storage' = CancelledCopy(sched[i].at)
  /\ sched' = [sched EXCEPT ![i].pc = "cancelSaved"]
  /\ UNCHANGED <<aside, overlapCap, now, alarms, cancel, handler, startup,
                 lastSched, prevSched, cancelQuiet, cancelledIds>>

\* clearActiveTimer()
SchedCancelDelete(i) ==
  /\ sched[i].pc = "cancelSaved"
  /\ storage' = ClearedValue(storage)
  /\ sched' = [sched EXCEPT ![i].pc = "cancelDone"]
  /\ UNCHANGED <<aside, overlapCap, now, alarms, cancel, handler, startup,
                 lastSched, prevSched, cancelQuiet, cancelledIds>>

\* cancelTimer has returned (nothing was persisted, or the record is deleted)
SchedCancelReturned(i) ==
  \/ sched[i].pc = "cancelLoaded" /\ sched[i].at = Null
  \/ sched[i].pc = "cancelDone"

CancelledBy(i) ==
  IF sched[i].pc = "cancelDone" THEN {sched[i].at.id} ELSE {}

\* a check that lets a fire time equal to now pass
RejectReason_Late(req, t) ==
  IF ~req.hasDropTime THEN "Drop time not specified"
  ELSE IF ScheduledTimeOf(req) < t THEN "Scheduled time is in the past"
  ELSE "none"

\* the two throws of scheduleTimer, or "none"
RejectReason(req, t) ==
  IF ~req.hasDropTime THEN "Drop time not specified"
  ELSE IF ScheduledTimeOf(req) <= t THEN "Scheduled time is in the past"
  ELSE "none"

\* scheduleTimer throws; the listener answers {success: false, error}
SchedReject(i) ==
  /\ SchedCancelReturned(i)
  /\ RejectReason(sched[i].req, now) # "none"
  /\ sched' =
       [sched EXCEPT ![i] =
          [IdleSched EXCEPT !.pc = "done",
             !.resp = RejectReason(sched[i].req, now)]]
  /\ cancelledIds' = cancelledIds \cup CancelledBy(i)
  /\ lastSched' = Null
  /\ prevSched' = Null
  /\ UNCHANGED <<aside, overlapCap, now, storage, alarms, cancel, handler, startup,
                 cancelQuiet>>

\* chrome.alarms.create(alarmName, {delayInMinutes})
SchedArm(i) ==
  /\ SchedCancelReturned(i)
  /\ RejectReason(sched[i].req, now) = "none"
  /\ alarms' = CreateAlarm(alarms, now, ScheduledTimeOf(sched[i].req), i)
  /\ sched' = [sched EXCEPT ![i].pc = "alarmCreated",
                            ![i].timer = NewTimer(sched[i].req, now, i)]
  /\ cancelledIds' = cancelledIds \cup CancelledBy(i)
  /\ UNCHANGED <<aside, overlapCap, now, storage, cancel, handler, startup,
                 lastSched, prevSched, cancelQuiet>>

\* saveActiveTimer(timer)
SchedSave(i) ==
  /\ sched[i].pc = "alarmCreated"
  /\ storage' = sched[i].timer
  /\ sched' = [sched EXCEPT ![i].pc = "saved"]
  /\ cancelQuiet' = FALSE
  /\ UNCHANGED <<aside, overlapCap, now, alarms, cancel, handler, startup,
                 lastSched, prevSched, cancelledIds>>

\* scheduleTimer returns the timer; the listener answers {success: true}
ReturnTimer(i) ==
  /\ sched' = [sched EXCEPT ![i] = [IdleSched EXCEPT !.pc = "done", !.resp = "ok"]]
  /\ lastSched' = IF sched[i].alone THEN sched[i].timer ELSE Null
  /\ prevSched' = IF sched[i].alone THEN lastSched ELSE Null

\* what chrome.tabs.get and buildTockSearchUrl can yield
TabLookups == {"throws", "noUrl", "otherSite", "tockNoSearchUrl", "tock"}

\* chrome.tabs.get(tabId) resolved; on a Tock tab with a search URL
\* chrome.tabs.update(tabId, {url}) is issued, otherwise the call returns
SchedNavigate(i) ==
  /\ sched[i].pc = "saved"
  /\ \E tab \in TabLookups :
       IF tab = "tock"
       THEN /\ sched' = [sched EXCEPT ![i].pc = "navigating"]
            /\ UNCHANGED <<lastSched, prevSched>>
       ELSE ReturnTimer(i)
  /\ UNCHANGED <<aside, overlapCap, now, storage, alarms, cancel, handler, startup,
                 cancelQuiet, cancelledIds>>

\* chrome.tabs.update resolved or threw (the throw is caught and logged)
SchedReturn(i) ==
  /\ sched[i].pc = "navigating"
  /\ ReturnTimer(i)
  /\ UNCHANGED <<aside, overlapCap, now, storage, alarms, cancel, handler, startup,
                 cancelQuiet, cancelledIds>>

\* ------------------------------------------------ cancelTimer (CANCEL_TIMER)
CancelStart(c) ==
  /\ NextFree(cancel, c)
  /\ RoomToStart
  /\ cancel' =
       [Disturbed(cancel) EXCEPT ![c] =
          [IdleCancel EXCEPT !.pc = "loaded", !.at = storage,
             !.alone = NobodyInFlight]]
  /\ sched' = Disturbed(sched)
  /\ lastSched' = Null
  /\ prevSched' = Null
  /\ UNCHANGED <<aside, overlapCap, now, storage, alarms, handler, startup,
                 cancelQuiet, cancelledIds>>

\* nothing persisted: cancelTimer returns at once, {success: true}
CancelNothing(c) ==
  /\ cancel[c].pc = "loaded"
  /\ cancel[c].at = Null
  /\ cancel' = [cancel EXCEPT ![c] = [IdleCancel EXCEPT !.pc = "done"]]
  /\ UNCHANGED <<aside, overlapCap, now, storage, alarms, sched, handler, startup,
                 lastSched, prevSched, cancelQuiet, cancelledIds>>

CancelClear(c) ==
  /\ cancel[c].pc = "loaded"
  /\ cancel[c].at # Null
  /\ alarms' = ClearAlarm(alarms, cancel[c].at.alarmName)
  /\ cancel' = [cancel EXCEPT ![c].pc = "cleared"]
  /\ UNCHANGED <<aside, overlapCap, now, storage, sched, handler, startup,
                 lastSched, prevSched, cancelQuiet, cancelledIds>>

CancelSave(c) ==
  /\ cancel[c].pc = "cleared"
  /\ storage' = CancelledCopy(cancel[c].at)
  /\ cancel' = [cancel EXCEPT ![c].pc = "saved"]
  /\ UNCHANGED <<aside, overlapCap, now, alarms, sched, handler, startup,
                 lastSched, prevSched, cancelQuiet, cancelledIds>>

CancelDelete(c) ==
  /\ cancel[c].pc = "saved"
  /\ storage' = ClearedValue(storage)
  /\ cancel' = [cancel EXCEPT ![c].pc = "deleted"]
  /\ UNCHANGED <<aside, overlapCap, now, alarms, sched, handler, startup,
                 lastSched, prevSched, cancelQuiet, cancelledIds>>

\* cancelTimer returns; the listener answers {success: true}
CancelFinish(c) ==
  /\ cancel[c].pc = "deleted"
  /\ cancel' = [cancel EXCEPT ![c] = [IdleCancel EXCEPT !.pc = "done"]]
  /\ cancelledIds' = cancelledIds \cup {cancel[c].at.id}
  /\ cancelQuiet' =
       (cancelQuiet \/ (cancel[c].alone /\ cancel[c].at.status = "scheduled"))
  /\ UNCHANGED <<aside, overlapCap, now, storage, alarms, sched, handler, startup,
                 lastSched, prevSched>>

\* ------------------------------------------------------ handleAlarmTrigger
\* chrome.alarms.onAlarm: a due alarm fires once and is gone; the listener
\* calls handleAlarmTrigger(alarm.name), which issues loadActiveTimer().
AlarmFire(h, a) ==
  /\ NextFree(handler, h)
  /\ RoomToStart
  /\ a \in alarms
  /\ a.when <= now
  /\ alarms' = alarms \ {a}
  /\ handler' =
       [handler EXCEPT ![h] =
          [IdleHandler EXCEPT !.pc = "loaded", !.alarmName = a.name,
             !.at = storage, !.late = (a.owner \in cancelledIds)]]
  /\ sched' = Disturbed(sched)
  /\ cancel' = Disturbed(cancel)
  /\ lastSched' = Null
  /\ prevSched' = Null
  /\ UNCHANGED <<aside, overlapCap, now, storage, startup, cancelQuiet, cancelledIds>>

Ended(h) == [IdleHandler EXCEPT !.pc = "done"]

\* no active timer for this alarm: return
HandleStale(h) ==
  /\ handler[h].pc = "loaded"
  /\ StaleAlarm(handler[h].at, handler[h].alarmName)
  /\ handler' = [handler EXCEPT ![h] = Ended(h)]
  /\ UNCHANGED <<aside, overlapCap, now, storage, alarms, sched, cancel, startup,
                 lastSched, prevSched, cancelQuiet, cancelledIds>>

\* activeTimer.status = 'running'; saveActiveTimer(activeTimer)
HandleRun(h) ==
  /\ handler[h].pc = "loaded"
  /\ ~StaleAlarm(handler[h].at, handler[h].alarmName)
  /\ storage' = WithStatus(handler[h].at, "running")
  /\ handler' = [handler EXCEPT ![h].pc = "running",
                                ![h].at = WithStatus(handler[h].at, "running")]
  /\ UNCHANGED <<aside, overlapCap, now, alarms, sched, cancel, startup,
                 lastSched, prevSched, cancelQuiet, cancelledIds>>

\* loadPreferences(): whatever the popup last saved in chrome.storage.sync
HandleLoadPrefs(h) ==
  /\ handler[h].pc = "running"
  /\ \E prefs \in PrefsChoices :
       handler' = [handler EXCEPT ![h].pc = "prefsLoaded",
                                  ![h].autoRefresh = prefs.autoRefreshOnNoSlots,
                                  ![h].maxRefresh = prefs.maxRefreshRetries]
  /\ UNCHANGED <<aside, overlapCap, now, storage, alarms, sched, cancel, startup,
                 lastSched, prevSched, cancelQuiet, cancelledIds>>

\* the handler saves the outcome of the attempt and returns
Finish(h, result) ==
  /\ storage' = WithStatus(handler[h].at, FinalStatus(result))
  /\ handler' = [handler EXCEPT ![h] = Ended(h)]

\* buildDesiredDatesList(preferences) throws (toISOString of an invalid
\* date): the catch block of handleAlarmTrigger saves failed
HandleDatesThrow(h) ==
  /\ handler[h].pc = "running"
  /\ Finish(h, "datesThrew")
  /\ UNCHANGED <<aside, overlapCap, now, alarms, sched, cancel, startup,
                 lastSched, prevSched, cancelQuiet, cancelledIds>>

\* if (activeTimer.tabId) ... else: no tab id, status failed
HandleNoTab(h) ==
  /\ handler[h].pc = "prefsLoaded"
  /\ handler[h].at.tabId = NoTabId
  /\ Finish(h, "noTabId")
  /\ UNCHANGED <<aside, overlapCap, now, alarms, sched, cancel, startup,
                 lastSched, prevSched, cancelQuiet, cancelledIds>>

\* attemptFormFill: chrome.tabs.get(tabId) is issued
HandleGetTab(h) ==
  /\ handler[h].pc = "prefsLoaded"
  /\ handler[h].at.tabId # NoTabId
  /\ handler' = [handler EXCEPT ![h].pc = "tabRequested"]
  /\ UNCHANGED <<aside, overlapCap, now, storage, alarms, sched, cancel, startup,
                 lastSched, prevSched, cancelQuiet, cancelledIds>>

\* chrome.tabs.get threw (missing tab) or the tab has no url: attemptFormFill
\* returns {success: false} and the handler saves failed
HandleTabUnusable(h) ==
  /\ handler[h].pc = "tabRequested"
  /\ \E why \in {"tabMissing", "noUrl"} : Finish(h, why)
  /\ UNCHANGED <<aside, overlapCap, now, alarms, sched, cancel, startup,
                 lastSched, prevSched, cancelQuiet, cancelledIds>>

\* Tock tab: chrome.tabs.reload(tabId) is issued
HandleReload(h) ==
  /\ handler[h].pc = "tabRequested"
  /\ handler' = [handler EXCEPT ![h].pc = "reloadSent",
                                ![h].reloads = handler[h].reloads + 1]
  /\ UNCHANGED <<aside, overlapCap, now, storage, alarms, sched, cancel, startup,
                 lastSched, prevSched, cancelQuiet, cancelledIds>>

\* other platform: sendAutoFillFormMessage(preferences, tabId), no reload
HandleSendPlain(h) ==
  /\ handler[h].pc = "tabRequested"
  /\ handler' = [handler EXCEPT ![h].pc = "messageSent",
                                ![h].adapterCalls = handler[h].adapterCalls + 1]
  /\ UNCHANGED <<aside, overlapCap, now, storage, alarms, sched, cancel, startup,
                 lastSched, prevSched, cancelQuiet, cancelledIds>>

\* the reload command was rejected: rethrown, caught, {success: false}
HandleReloadFailed(h) ==
  /\ handler[h].pc = "reloadSent"
  /\ Finish(h, "reloadThrew")
  /\ UNCHANGED <<aside, overlapCap, now, alarms, sched, cancel, startup,
                 lastSched, prevSched, cancelQuiet, cancelledIds>>

\* the reload command was accepted: waitForTabReload(tabId) starts
HandleWait(h) ==
  /\ handler[h].pc = "reloadSent"
  /\ handler' = [handler EXCEPT ![h].pc = "waiting"]
  /\ UNCHANGED <<aside, overlapCap, now, storage, alarms, sched, cancel, startup,
                 lastSched, prevSched, cancelQuiet, cancelledIds>>

\* waitForTabReload rejected after 5 s: caught, {success: false}
HandleWaitTimeout(h) ==
  /\ handler[h].pc = "waiting"
  /\ Finish(h, "reloadTimeout")
  /\ UNCHANGED <<aside, overlapCap, now, alarms, sched, cancel, startup,
                 lastSched, prevSched, cancelQuiet, cancelledIds>>

\* the tab reported complete: chrome.tabs.sendMessage(AUTO_FILL_FORM)
HandleSendDates(h) ==
  /\ handler[h].pc = "waiting"
  /\ handler' = [handler EXCEPT ![h].pc = "messageSent",
                                ![h].adapterCalls = handler[h].adapterCalls + 1]
  /\ UNCHANGED <<aside, overlapCap, now, storage, alarms, sched, cancel, startup,
                 lastSched, prevSched, cancelQuiet, cancelledIds>>

\* what the page adapter answers: success true, success false, or the send
\* rejects (no receiver, no response)
AdapterResults == {"success", "failure", "threw"}

\* the answer of the page arrives; completed or failed is saved
HandleResult(h) ==
  /\ handler[h].pc = "messageSent"
  /\ \E result \in AdapterResults : Finish(h, result)
  /\ UNCHANGED <<aside, overlapCap, now, alarms, sched, cancel, startup,
                 lastSched, prevSched, cancelQuiet, cancelledIds>>

\* ---------------------------------------------------------------- startup
\* the browser restarts (which takes time): what was in flight is gone, armed
\* alarms may be lost, and the onStartup listener issues loadActiveTimer()
Restart(s) ==
  /\ NextFree(startup, s)
  /\ now < MaxTime
  /\ now' = now + 1
  /\ \E kept \in SUBSET alarms : alarms' = kept
  /\ sched' = Killed(sched, IdleSched)
  /\ cancel' = Killed(cancel, IdleCancel)
  /\ handler' = Killed(handler, IdleHandler)
  /\ startup' = [Killed(startup, IdleStartup) EXCEPT
                   ![s] = [IdleStartup EXCEPT !.pc = "loaded", !.at = storage,
                             !.lost = ~\E a \in alarms' :
                                         a.name = storage.alarmName]]
  /\ lastSched' = Null
  /\ prevSched' = Null
  /\ UNCHANGED <<aside, overlapCap, storage, cancelQuiet, cancelledIds>>

\* no persisted Timer, or its status is not scheduled: nothing to restore
StartupSkip(s) ==
  /\ startup[s].pc = "loaded"
  /\ ~(startup[s].at # Null /\ startup[s].at.status = "scheduled")
  /\ startup' = [startup EXCEPT ![s] = [IdleStartup EXCEPT !.pc = "done"]]
  /\ UNCHANGED <<aside, overlapCap, now, storage, alarms, sched, cancel, handler,
                 lastSched, prevSched, cancelQuiet, cancelledIds>>

\* chrome.alarms.getAll(); hasAlarm = alarms.some(name matches)
StartupGetAlarms(s) ==
  /\ startup[s].pc = "loaded"
  /\ startup[s].at # Null /\ startup[s].at.status = "scheduled"
  /\ startup' = [startup EXCEPT ![s].pc = "alarmsRead",
        ![s].hasAlarm = (\E a \in alarms : a.name = startup[s].at.alarmName)]
  /\ UNCHANGED <<aside, overlapCap, now, storage, alarms, sched, cancel, handler,
                 lastSched, prevSched, cancelQuiet, cancelledIds>>

\* the alarm is still armed: nothing to do
StartupKeep(s) ==
  /\ startup[s].pc = "alarmsRead"
  /\ startup[s].hasAlarm
  /\ startup' = [startup EXCEPT ![s] = [IdleStartup EXCEPT !.pc = "done"]]
  /\ UNCHANGED <<aside, overlapCap, now, storage, alarms, sched, cancel, handler,
                 lastSched, prevSched, cancelQuiet, cancelledIds>>

\* a start-up handler that recreates nothing
Recreated_Nothing(al, t) == al

\* chrome.alarms.create(activeTimer.alarmName, {delayInMinutes}) with the
\* delay scheduledTime - now
Recreated(al, t) == CreateAlarm(al, t.alarmName, t.scheduledTime, t.id)

\* alarm lost and scheduledTime > now: chrome.alarms.create(alarmName, ...)
StartupRearm(s) ==
  /\ startup[s].pc = "alarmsRead"
  /\ ~startup[s].hasAlarm
  /\ startup[s].at.scheduledTime > now
  /\ alarms' = Recreated(alarms, startup[s].at)
  /\ startup' = [startup EXCEPT ![s] = [IdleStartup EXCEPT !.pc = "done"]]
  /\ UNCHANGED <<aside, overlapCap, now, storage, sched, cancel, handler,
                 lastSched, prevSched, cancelQuiet, cancelledIds>>

\* alarm lost and the time has passed: clearActiveTimer()
StartupDiscard(s) ==
  /\ startup[s].pc = "alarmsRead"
  /\ ~startup[s].hasAlarm
  /\ startup[s].at.scheduledTime <= now
  /\ storage' = ClearedValue(storage)
  /\ startup' =
       [startup EXCEPT ![s] =
          [IdleStartup EXCEPT !.pc = "done",
             !.expired = IF startup[s].lost THEN startup[s].at.id ELSE 0]]
  /\ UNCHANGED <<aside, overlapCap, now, alarms, sched, cancel, handler,
                 lastSched, prevSched, cancelQuiet, cancelledIds>>

\* ------------------------------------------------------------- the system
SchedNext ==
  \E i \in 1..MaxSchedules :
    \/ \E req \in Requests : SchedStart(i, req)
    \/ SchedCancelClear(i)
    \/ SchedCancelSave(i)
    \/ SchedCancelDelete(i)
    \/ SchedReject(i)
    \/ SchedArm(i)
    \/ SchedSave(i)
    \/ SchedNavigate(i)
    \/ SchedReturn(i)

CancelNext ==
  \E c \in 1..MaxCancels :
    \/ CancelStart(c)
    \/ CancelNothing(c)
    \/ CancelClear(c)
    \/ CancelSave(c)
    \/ CancelDelete(c)
    \/ CancelFinish(c)

HandlerStep(h) ==
  \/ HandleStale(h)
  \/ HandleRun(h)
  \/ HandleLoadPrefs(h)
  \/ HandleDatesThrow(h)
  \/ HandleNoTab(h)
  \/ HandleGetTab(h)
  \/ HandleTabUnusable(h)
  \/ HandleReload(h)
  \/ HandleSendPlain(h)
  \/ HandleReloadFailed(h)
  \/ HandleWait(h)
  \/ HandleWaitTimeout(h)
  \/ HandleSendDates(h)
  \/ HandleResult(h)

HandlerNext ==
  \E h \in 1..MaxFires :
    \/ \E a \in alarms : AlarmFire(h, a)
    \/ HandlerStep(h)

StartupNext ==
  \E s \in 1..MaxStartups :
    \/ Restart(s)
    \/ StartupSkip(s)
    \/ StartupGetAlarms(s)
    \/ StartupKeep(s)
    \/ StartupRearm(s)
    \/ StartupDiscard(s)

Next ==
  \/ Tick
  \/ SchedNext
  \/ CancelNext
  \/ HandlerNext
  \/ StartupNext

Spec == Init /\ [][Next]_vars

\* the event loop resumes every handler run that is waiting on a promise,
\* and each wait is bounded (reload timeout, message answer)
InitLive == overlapCap = MaxLiveInFlight /\ Quiet /\ AsideIdle

SpecLive ==
  InitLive /\ [][Next]_vars /\ \A h \in 1..MaxFires : WF_vars(HandlerStep(h))

\* ------------------------------------------ waitForTabReload, step by step
\* One attempt on a Tock tab from the moment chrome.tabs.reload was accepted:
\* the promise executor of waitForTabReload, the tab-update events, the two
\* timers, and what attemptFormFill and handleAlarmTrigger do with the
\* outcome.
MaxEvents == 3

\* a tab other than the Timer's
OtherTab == 2

\* chrome.tabs.onUpdated: (updatedTabId, changeInfo.status)
UpdateEvents == [tab : {TheTab, OtherTab}, status : {"loading", "complete"}]

\* a listener that does not look at the tab id
ListenerMatches_AnyTab(e, tabId) == e.status = "complete"

\* updatedTabId === tabId && changeInfo.status === 'complete'
ListenerMatches(e, tabId) == e.tab = tabId /\ e.status = "complete"

\* attemptFormFill issues chrome.tabs.reload(tabId) and awaits it; the tab
\* starts to load while the command's promise is still pending
ReloadIssued ==
  /\ wait.pc = "idle"
  /\ ~wait.issued
  /\ wait' = [wait EXCEPT !.issued = TRUE]
  /\ UNCHANGED <<main, probe, fill, pick, built, book, popup, plainWait, reply, slot, resyClick, deferred, nav>>

\* the command's promise is fulfilled and waitForTabReload runs its
\* executor: completed = false, setTimeout(..., 5000), addListener
WaitBegin ==
  /\ wait.pc = "idle"
  /\ wait.issued
  /\ wait' = [wait EXCEPT !.pc = "waiting", !.status = "running",
                          !.timeoutArmed = TRUE, !.listening = TRUE]
  /\ UNCHANGED <<main, probe, fill, pick, built, book, popup, plainWait, reply, slot, resyClick, deferred, nav>>

\* the listener runs: on the Timer's tab reporting complete it sets
\* completed, clears the timeout, removes itself and starts the 150 ms timer
Listener(w, e) ==
  IF ListenerMatches(e, TheTab) /\ ~w.completed
  THEN [w EXCEPT !.completed = TRUE, !.timeoutArmed = FALSE,
                 !.listening = FALSE, !.removes = w.removes + 1,
                 !.settleArmed = TRUE]
  ELSE w

\* the browser reports a tab update; only an attached listener is called
TabUpdated(e) ==
  /\ wait.issued
  /\ Len(wait.updates) < MaxEvents
  /\ wait' =
       [(IF wait.listening THEN Listener(wait, e) ELSE wait)
          EXCEPT !.updates = Append(wait.updates, e)]
  /\ UNCHANGED <<main, probe, fill, pick, built, book, popup, plainWait, reply, slot, resyClick, deferred, nav>>

\* a timeout that resolves the wait, so that the attempt goes on
TimeoutFires_Resolves ==
  /\ wait.timeoutArmed
  /\ wait' = [wait EXCEPT !.timeoutArmed = FALSE, !.completed = TRUE,
                          !.listening = FALSE, !.removes = wait.removes + 1,
                          !.resolves = wait.resolves + 1,
                          !.sent = wait.sent + 1, !.pc = "messageSent"]
  /\ UNCHANGED <<main, probe, fill, pick, built, book, popup, plainWait, reply, slot, resyClick, deferred, nav>>

\* the 5000 ms timer fires: completed, removeListener, reject; the rejection
\* is rethrown and caught in attemptFormFill, which returns {success: false},
\* and handleAlarmTrigger saves failed
TimeoutFires ==
  /\ wait.timeoutArmed
  /\ wait' =
       IF wait.completed THEN [wait EXCEPT !.timeoutArmed = FALSE]
       ELSE [wait EXCEPT !.timeoutArmed = FALSE, !.completed = TRUE,
                         !.listening = FALSE, !.removes = wait.removes + 1,
                         !.rejects = wait.rejects + 1,
                         !.status = FinalStatus("reloadTimeout"),
                         !.pc = "done"]
  /\ UNCHANGED <<main, probe, fill, pick, built, book, popup, plainWait, reply, slot, resyClick, deferred, nav>>

\* the 150 ms timer fires: resolve(); attemptFormFill goes on and sends
\* AUTO_FILL_FORM to the tab
SettleFires ==
  /\ wait.settleArmed
  /\ wait' = [wait EXCEPT !.settleArmed = FALSE,
                          !.resolves = wait.resolves + 1,
                          !.sent = wait.sent + 1, !.pc = "messageSent"]
  /\ UNCHANGED <<main, probe, fill, pick, built, book, popup, plainWait, reply, slot, resyClick, deferred, nav>>

\* the page answers; handleAlarmTrigger saves completed or failed
PageAnswers(result) ==
  /\ wait.pc = "messageSent"
  /\ wait' = [wait EXCEPT !.pc = "done", !.status = FinalStatus(result)]
  /\ UNCHANGED <<main, probe, fill, pick, built, book, popup, plainWait, reply, slot, resyClick, deferred, nav>>

WaitNext ==
  \/ ReloadIssued
  \/ WaitBegin
  \/ \E e \in UpdateEvents : TabUpdated(e)
  \/ TimeoutFires
  \/ SettleFires
  \/ \E result \in AdapterResults : PageAnswers(result)

SpecWait == Init /\ [][WaitNext]_vars

\* ------------------------------------------- tryMultipleDates, step by step
\* One call of tryMultipleDates of the Tock adapter (src/unnamed/part_009)
\* or of the Resy adapter (src/unnamed/part_007) on a page whose calendar
\* shows one day button per date.  What the page shows after a date was
\* selected is the page's choice.

\* preferences.time after split(':').map(Number): "19:00" and a string
\* without a colon
PreferredTimes == {<<19, 0>>, <<19>>}

DesiredLists == UNION {[1..n -> Dates] : n \in 0..MaxRequested}

Calendars == [Dates -> Cells]

Elements(s) == {s[k] : k \in 1..Len(s)}

\* [...new Set(dates)].sort()
RECURSIVE SortedSeq(_)
SortedSeq(S) ==
  IF S = {} THEN <<>>
  ELSE LET m == CHOOSE x \in S : \A y \in S : x <= y
       IN  <<m>> \o SortedSeq(S \ {m})

\* the four selectors of getAvailableDatesFromCalendar, strictest first
TockSelector(k, c) ==
  /\ c.present
  /\ CASE k = 1 -> c.avail /\ c.inMonth /\ ~c.blocked
       [] k = 2 -> c.avail /\ ~c.blocked
       [] k = 3 -> c.avail
       [] OTHER -> TRUE

\* the buttons of the first selector that matches anything
TockButtons(cal) ==
  LET hit(k) == {d \in Dates : TockSelector(k, cal[d])}
  IN  IF hit(1) # {} THEN hit(1)
      ELSE IF hit(2) # {} THEN hit(2)
      ELSE IF hit(3) # {} THEN hit(3)
      ELSE hit(4)

TockAvailableDates(cal) == SortedSeq(TockButtons(cal))

\* every .ResyCalendar-day--available button, in document order
ResyAvailableDates(cal) ==
  SortedSeq({d \in Dates : cal[d].present /\ cal[d].avail})

AvailableDates(a, cal) ==
  IF a = "tock" THEN TockAvailableDates(cal) ELSE ResyAvailableDates(cal)

\* a loop over every desired date
DatesToTry_All(desired, available) == desired

\* desiredDates.filter(d => availableDates.includes(d))
DatesToTry(desired, available) ==
  SelectSeq(desired, LAMBDA d : d \in Elements(available))

\* clickCalendarDate: the button exists and is an available one; steady is
\* FALSE when the calendar is not there to click (Resy: it did not reopen;
\* Tock: the lookup or the click raised an error, which is caught)
ClickCalendarDate(cal, d, steady) ==
  steady /\ cal[d].present /\ cal[d].avail

\* convertTo12HourFormat: minutes.toString() on a missing second part
ConvertThrows(time) == Len(time) < 2

\* continue, or fall out of the loop and return false
Advance(p) ==
  IF p.i < Len(p.toTry) THEN [p EXCEPT !.i = p.i + 1, !.pc = "clicking"]
  ELSE [p EXCEPT !.pc = "done", !.result = "false"]

\* a loop that clicks the control and goes on
BookFound_GoesOn(p) ==
  Advance([p EXCEPT !.found = p.found + 1, !.activated = p.activated + 1])

\* the control is there: click it and return true
BookFound(p) ==
  [p EXCEPT !.found = p.found + 1, !.activated = p.activated + 1,
            !.pc = "done", !.result = "true"]

\* the call; Tock reads the calendar at once, Resy opens it first
DatesBegin ==
  /\ probe.pc = "idle"
  /\ \E a \in {"tock", "resy"}, desired \in DesiredLists, cal \in Calendars,
        time \in PreferredTimes :
       probe' = [probe EXCEPT !.pc = IF a = "tock" THEN "parsing" ELSE "opening",
                              !.adapter = a, !.desired = desired,
                              !.calendar = cal, !.time = time]
  /\ UNCHANGED <<main, wait, fill, pick, built, book, popup, plainWait, reply, slot, resyClick, deferred, nav>>

\* Resy: openCalendar answered
CalendarOpened(ok) ==
  /\ probe.pc = "opening"
  /\ probe' = IF ok THEN [probe EXCEPT !.pc = "parsing"]
              ELSE [probe EXCEPT !.pc = "done", !.result = "false"]
  /\ UNCHANGED <<main, wait, fill, pick, built, book, popup, plainWait, reply, slot, resyClick, deferred, nav>>

\* getAvailableDatesFromCalendar answered: filter, return false when nothing
\* is left, else start the loop
DatesParsed ==
  /\ probe.pc = "parsing"
  /\ LET available == AvailableDates(probe.adapter, probe.calendar)
         toTry == DatesToTry(probe.desired, available)
     IN  probe' = IF toTry = <<>>
                  THEN [probe EXCEPT !.available = available, !.toTry = toTry,
                                     !.pc = "done", !.result = "false"]
                  ELSE [probe EXCEPT !.available = available, !.toTry = toTry,
                                     !.i = 1, !.pc = "clicking"]
  /\ UNCHANGED <<main, wait, fill, pick, built, book, popup, plainWait, reply, slot, resyClick, deferred, nav>>

\* clickCalendarDate(datesToTry[i]) answered
DateClicked(steady) ==
  /\ probe.pc = "clicking"
  /\ LET d == probe.toTry[probe.i]
     IN  probe' = IF ClickCalendarDate(probe.calendar, d, steady)
                  THEN [probe EXCEPT !.clicked = Append(probe.clicked, d),
                                     !.pc = "finding"]
                  ELSE Advance(probe)
  /\ UNCHANGED <<main, wait, fill, pick, built, book, popup, plainWait, reply, slot, resyClick, deferred, nav>>

\* Tock: findBookButton answered, or threw while converting the time
TockBookProbed(shown) ==
  /\ probe.pc = "finding"
  /\ probe.adapter = "tock"
  /\ probe' = IF ConvertThrows(probe.time)
              THEN [probe EXCEPT !.pc = "done", !.result = "threw"]
              ELSE IF shown THEN BookFound(probe)
              ELSE Advance(probe)
  /\ UNCHANGED <<main, wait, fill, pick, built, book, popup, plainWait, reply, slot, resyClick, deferred, nav>>

SlotOutcomes == {"noContainer", "noButtons", "noMatch", "slotClicked"}

\* Resy: waitForTimeSlots, the time buttons and clickTimeSlot answered
ResySlotsProbed(outcome) ==
  /\ probe.pc = "finding"
  /\ probe.adapter = "resy"
  /\ probe' = IF outcome = "slotClicked" THEN [probe EXCEPT !.pc = "reserving"]
              ELSE Advance(probe)
  /\ UNCHANGED <<main, wait, fill, pick, built, book, popup, plainWait, reply, slot, resyClick, deferred, nav>>

\* Resy: clickReserveButton answered
ResyReserveProbed(reserved) ==
  /\ probe.pc = "reserving"
  /\ probe' = IF reserved THEN BookFound(probe) ELSE Advance(probe)
  /\ UNCHANGED <<main, wait, fill, pick, built, book, popup, plainWait, reply, slot, resyClick, deferred, nav>>

DatesNext ==
  \/ DatesBegin
  \/ \E ok \in BOOLEAN : CalendarOpened(ok)
  \/ DatesParsed
  \/ \E steady \in BOOLEAN : DateClicked(steady)
  \/ \E shown \in BOOLEAN : TockBookProbed(shown)
  \/ \E outcome \in SlotOutcomes : ResySlotsProbed(outcome)
  \/ \E reserved \in BOOLEAN : ResyReserveProbed(reserved)

SpecDates == Init /\ [][DatesNext]_vars

\* ------------------------------------- the fill entry points, step by step
\* One call of TockFormFiller.fill (src/unnamed/part_009), of
\* OpenTableFormFiller.fill (src/src/content/index.ts) or of
\* ResyFormFiller.fillForm without fallback dates (src/unnamed/part_007), as
\* handleFormFill makes it: waitForForm and autoSubmit are true.

\* private maxAttempts: number = 10
MaxAttempts == 10

Adapters == {"tock", "opentable", "resy"}

\* what the entry point returns once the wait for the slot or book control
\* has ended, found or not
FillResult(a, searchPage, controlClicked) ==
  IF a = "tock" /\ searchPage
  THEN IF controlClicked THEN "true" ELSE "false"
  ELSE "true"

Returned(f, value) == [f EXCEPT !.pc = "done", !.result = value]

\* the call, up to its first wait
FillBegin ==
  /\ fill.pc = "idle"
  /\ \E a \in Adapters, searchPage \in BOOLEAN :
       /\ searchPage => a = "tock"
       /\ fill' = [fill EXCEPT !.adapter = a, !.searchPage = searchPage,
                               !.pc = IF a = "resy" THEN "slots"
                                      ELSE IF searchPage THEN "control"
                                      ELSE "form"]
  /\ UNCHANGED <<main, wait, probe, pick, built, book, popup, plainWait, reply, slot, resyClick, deferred, nav>>

\* waitForFormElements: one check of the page
FormPolled(seen) ==
  /\ fill.pc = "form"
  /\ LET n == fill.attempts + 1
     IN  fill' = IF seen THEN [fill EXCEPT !.attempts = n, !.pc = "fields"]
                 ELSE IF n >= MaxAttempts
                      THEN Returned([fill EXCEPT !.attempts = n], "false")
                 ELSE [fill EXCEPT !.attempts = n]
  /\ UNCHANGED <<main, wait, probe, pick, built, book, popup, plainWait, reply, slot, resyClick, deferred, nav>>

\* the fields are set (Tock: and the search button clicked); the wait for
\* the control starts with attempts = 0
FieldsFilled ==
  /\ fill.pc = "fields"
  /\ fill' = [fill EXCEPT !.pc = "control", !.attempts = 0]
  /\ UNCHANGED <<main, wait, probe, pick, built, book, popup, plainWait, reply, slot, resyClick, deferred, nav>>

\* Tock: the first five seconds of waitForAndClickBookButton are over
PhaseEnds ==
  /\ fill.pc = "control"
  /\ fill.adapter = "tock"
  /\ ~fill.late
  /\ fill' = [fill EXCEPT !.late = TRUE]
  /\ UNCHANGED <<main, wait, probe, pick, built, book, popup, plainWait, reply, slot, resyClick, deferred, nav>>

\* the poll may give up: Tock only after its first five seconds
MayGiveUp(f, n) ==
  n >= MaxAttempts /\ (f.adapter = "tock" => f.late)

\* waitForAndClickBookButton / waitForAndClickTimeSlot: one check of the
\* page, by the poll or by the mutation observer
ControlPolled(seen) ==
  /\ fill.pc = "control"
  /\ LET n == IF fill.attempts < MaxAttempts THEN fill.attempts + 1
              ELSE MaxAttempts
         f == [fill EXCEPT !.attempts = n]
     IN  fill' = IF seen
                 THEN Returned([f EXCEPT !.clicked = f.clicked + 1],
                               FillResult(f.adapter, f.searchPage, TRUE))
                 ELSE IF MayGiveUp(f, n)
                      THEN Returned(f, FillResult(f.adapter, f.searchPage, FALSE))
                 ELSE f
  /\ UNCHANGED <<main, wait, probe, pick, built, book, popup, plainWait, reply, slot, resyClick, deferred, nav>>

\* the overall timer of the wait (OpenTable 10 s, Tock 30 s) fires first
WaitTimesOut ==
  /\ fill.pc = "control"
  /\ fill.adapter = "tock" => fill.late /\ fill.attempts < MaxAttempts
  /\ fill' = Returned(fill, FillResult(fill.adapter, fill.searchPage, FALSE))
  /\ UNCHANGED <<main, wait, probe, pick, built, book, popup, plainWait, reply, slot, resyClick, deferred, nav>>

\* Resy: waitForTimeSlots, the time buttons and clickTimeSlot answered
ResySlotsAnswered(outcome) ==
  /\ fill.pc = "slots"
  /\ fill' = CASE outcome \in {"noContainer", "noButtons"} -> Returned(fill, "false")
               [] outcome = "noMatch" -> Returned(fill, "true")
               [] OTHER -> [fill EXCEPT !.clicked = fill.clicked + 1,
                                        !.pc = "reserve"]
  /\ UNCHANGED <<main, wait, probe, pick, built, book, popup, plainWait, reply, slot, resyClick, deferred, nav>>

\* Resy: clickReserveButton answered
ResyReserveAnswered(reserved) ==
  /\ fill.pc = "reserve"
  /\ fill' = Returned([fill EXCEPT !.clicked = IF reserved THEN fill.clicked + 1
                                               ELSE fill.clicked], "true")
  /\ UNCHANGED <<main, wait, probe, pick, built, book, popup, plainWait, reply, slot, resyClick, deferred, nav>>

FillNext ==
  \/ FillBegin
  \/ \E seen \in BOOLEAN : FormPolled(seen)
  \/ FieldsFilled
  \/ PhaseEnds
  \/ \E seen \in BOOLEAN : ControlPolled(seen)
  \/ WaitTimesOut
  \/ \E outcome \in SlotOutcomes : ResySlotsAnswered(outcome)
  \/ \E reserved \in BOOLEAN : ResyReserveAnswered(reserved)

SpecFill == Init /\ [][FillNext]_vars

\* --------------------------------------------- the time slot that is chosen
\* TockFormFiller.findBookButton (src/unnamed/part_009),
\* OpenTableFormFiller.findMatchingTimeSlot (src/src/content/index.ts) and
\* ResyFormFiller.clickTimeSlot (src/unnamed/part_007) on a page that shows
\* a list of visible slots, each with the text of its label.

\* the longest list of slots on a page
MaxSlots == 3

\* the text matched by /(\d{1,2}):(\d{2})\s*(AM|PM)/i: the hour (written
\* with a leading zero or not), the minutes, the period
TimeLabels ==
  {l \in [parseable : {TRUE}, hour : {5, 6, 12}, padded : BOOLEAN,
          minute : {0, 30}, period : {"AM", "PM"}] :
     l.padded => l.hour < 10}

\* a label without a time, such as Notify
NoTimeLabel ==
  [parseable |-> FALSE, hour |-> 0, padded |-> FALSE, minute |-> 0,
   period |-> "AM"]

SlotLabels == TimeLabels \cup {NoTimeLabel}

SlotLists == UNION {[1..n -> SlotLabels] : n \in 0..MaxSlots}

\* preferences.time after split(':').map(Number), as the TimePicker gives it
SlotTimes == {<<0, 30>>, <<5, 30>>, <<12, 0>>, <<17, 30>>, <<17, 45>>, <<18, 0>>}

\* convertTo12HourFormat: the text h:mm AM|PM of a 24-hour time
ConvertTo12Hour(t) ==
  [parseable |-> TRUE,
   hour |-> IF t[1] % 12 = 0 THEN 12 ELSE t[1] % 12,
   padded |-> FALSE, minute |-> t[2],
   period |-> IF t[1] >= 12 THEN "PM" ELSE "AM"]

\* slotTime === targetTime: the same text
SameText(l, target) ==
  /\ l.hour = target.hour
  /\ l.padded = target.padded
  /\ l.minute = target.minute
  /\ l.period = target.period

\* Tock: PM && hours < 12 -> +12, AM && hours === 12 -> 0
TockMinutes(l) ==
  LET hours == IF l.period = "PM" /\ l.hour < 12 THEN l.hour + 12
               ELSE IF l.period = "AM" /\ l.hour = 12 THEN 0
               ELSE l.hour
  IN  hours * 60 + l.minute

\* OpenTable and Resy: PM && hours !== 12 -> +12, AM && hours === 12 -> 0
SlotMinutes(l) ==
  LET hours == IF l.period = "PM" /\ l.hour # 12 THEN l.hour + 12
               ELSE IF l.period = "AM" /\ l.hour = 12 THEN 0
               ELSE l.hour
  IN  hours * 60 + l.minute

\* hours * 60 + minutes of the preferred time
TargetMinutes(t) == t[1] * 60 + t[2]

\* Math.abs
AbsDiff(a, b) == IF a >= b THEN a - b ELSE b - a

\* a scan that lets a later slot at the same distance win
Closer_OrEqual(diff, bestDiff) == diff <= bestDiff

\* diff < closestDiff
Closer(diff, bestDiff) == diff < bestDiff

NoBest == [idx |-> 0, diff |-> 0]

\* Tock: the buttons for which a time was found, in document order
RECURSIVE ButtonsWithTime(_, _)
ButtonsWithTime(labels, k) ==
  IF k > Len(labels) THEN <<>>
  ELSE IF labels[k].parseable THEN <<k>> \o ButtonsWithTime(labels, k + 1)
  ELSE ButtonsWithTime(labels, k + 1)

\* Tock: the closest of the buttons with a time, starting from the first
RECURSIVE TockClosest(_, _, _, _, _)
TockClosest(labels, target, withTime, n, best) ==
  IF n > Len(withTime) THEN best.idx
  ELSE LET k == withTime[n]
           diff == AbsDiff(target, TockMinutes(labels[k]))
       IN  TockClosest(labels, target, withTime, n + 1,
                       IF Closer(diff, best.diff) THEN [idx |-> k, diff |-> diff]
                       ELSE best)

\* findBookButton: exact text first, else the closest time
TockChoice(labels, t) ==
  LET withTime == ButtonsWithTime(labels, 1)
      preferred == ConvertTo12Hour(t)
      exact == {n \in 1..Len(withTime) : SameText(labels[withTime[n]], preferred)}
      first == withTime[1]
  IN  IF withTime = <<>> THEN 0
      ELSE IF exact # {} THEN withTime[CHOOSE n \in exact : \A o \in exact : n <= o]
      ELSE TockClosest(labels, TockMinutes(preferred), withTime, 1,
                       [idx |-> first,
                        diff |-> AbsDiff(TockMinutes(preferred),
                                         TockMinutes(labels[first]))])

\* findMatchingTimeSlot: return at the first label with the target's text,
\* else keep the closest so far
RECURSIVE OpenTableScan(_, _, _, _)
OpenTableScan(labels, t, k, best) ==
  IF k > Len(labels) THEN best.idx
  ELSE IF ~labels[k].parseable THEN OpenTableScan(labels, t, k + 1, best)
  ELSE IF SameText(labels[k], ConvertTo12Hour(t)) THEN k
  ELSE LET diff == AbsDiff(SlotMinutes(labels[k]), TargetMinutes(t))
       IN  OpenTableScan(labels, t, k + 1,
                         IF best.idx = 0 \/ Closer(diff, best.diff)
                         THEN [idx |-> k, diff |-> diff]
                         ELSE best)

OpenTableChoice(labels, t) == OpenTableScan(labels, t, 1, NoBest)

\* clickTimeSlot: keep the closest so far, stop at a difference of 0
RECURSIVE ResyScan(_, _, _, _)
ResyScan(labels, t, k, best) ==
  IF k > Len(labels) THEN best.idx
  ELSE IF ~labels[k].parseable THEN ResyScan(labels, t, k + 1, best)
  ELSE LET diff == AbsDiff(SlotMinutes(labels[k]), TargetMinutes(t))
           next == IF best.idx = 0 \/ Closer(diff, best.diff)
                   THEN [idx |-> k, diff |-> diff]
                   ELSE best
       IN  IF diff = 0 THEN next.idx
           ELSE ResyScan(labels, t, k + 1, next)

ResyChoice(labels, t) == ResyScan(labels, t, 1, NoBest)

SlotChoice(a, labels, t) ==
  CASE a = "tock" -> TockChoice(labels, t)
    [] a = "opentable" -> OpenTableChoice(labels, t)
    [] OTHER -> ResyChoice(labels, t)

\* one search on one page
SlotChosen ==
  /\ pick.pc = "idle"
  /\ \E a \in Adapters, labels \in SlotLists, t \in SlotTimes :
       pick' = [pc |-> "done", adapter |-> a, labels |-> labels, time |-> t,
                chosen |-> SlotChoice(a, labels, t)]
  /\ UNCHANGED <<main, wait, probe, fill, built, book, popup, plainWait, reply, slot, resyClick, deferred, nav>>

SlotsNext == SlotChosen

SpecSlots == Init /\ [][SlotsNext]_vars

\* ------------------------------------------------- buildDesiredDatesList
\* buildDesiredDatesList (src/src/background/index.ts:14-55).  A date string
\* YYYY-MM-DD is the number of its day; an instant is a number of hours, hour
\* 24 * d being 00:00 UTC of day d.

\* the largest scan radius (preferences.maxDaysToScan) tried
MaxRadius == 2

\* the longest list of calendar-selected dates tried
MaxSelected == 3

\* preferences.maxDaysToScan ?? 7
DefaultMaxDaysToScan == 7

\* a date string that new Date() cannot parse
BadDate == 0

\* the day on which the clock of a time zone with daylight saving changes,
\* at 02:00 local time
SwitchDay == 20

PrimaryDays == (SwitchDay - 2)..(SwitchDay + 1)

SelectedLists == UNION {[1..n -> (SwitchDay - 2)..SwitchDay] : n \in 0..MaxSelected}

\* the browser's time zone: its offsets from UTC in hours before and after
\* the change.  UTC; a zone west and one east of Greenwich in spring; the
\* western one in autumn
Zones ==
  { [before |-> 0, after |-> 0, switchDay |-> SwitchDay],
    [before |-> -5, after |-> -4, switchDay |-> SwitchDay],
    [before |-> 1, after |-> 2, switchDay |-> SwitchDay],
    [before |-> -4, after |-> -5, switchDay |-> SwitchDay] }

\* new Date('YYYY-MM-DD'): midnight UTC of that day
ParseDate(d) == 24 * d

\* toISOString().split('T')[0]: the UTC day of an instant
IsoDate(utc) == utc \div 24

\* the local wall clock of an instant
LocalHours(utc, z) ==
  utc + (IF utc < 24 * z.switchDay + 2 - z.before THEN z.before ELSE z.after)

\* the instant of a local wall clock
UtcHours(local, z) ==
  local - (IF local < 24 * z.switchDay + 2 THEN z.before ELSE z.after)

\* scanDate.setDate(primaryDate.getDate() + dayOffset): the local day moves,
\* the local time of day stays
ScanDate(primary, dayOffset, z) ==
  LET local == LocalHours(ParseDate(primary), z)
  IN  IsoDate(UtcHours(24 * ((local \div 24) + dayOffset) + (local % 24), z))

\* a push without the includes test
Push_Always(list, d) == Append(list, d)

\* if (!desiredDates.includes(d)) desiredDates.push(d)
Push(list, d) == IF d \in Elements(list) THEN list ELSE Append(list, d)

\* for (const date of selectedDates)
RECURSIVE AddSelected(_, _, _)
AddSelected(list, selected, k) ==
  IF k > Len(selected) THEN list
  ELSE AddSelected(Push(list, selected[k]), selected, k + 1)

\* for (dayOffset = -maxDaysToScan; dayOffset <= maxDaysToScan; dayOffset++)
RECURSIVE ScanRange(_, _, _, _, _)
ScanRange(list, primary, z, dayOffset, radius) ==
  IF dayOffset > radius THEN list
  ELSE IF dayOffset = 0 THEN ScanRange(list, primary, z, 1, radius)
  ELSE ScanRange(Push(list, ScanDate(primary, dayOffset, z)), primary, z,
                 dayOffset + 1, radius)

Radius(p) == IF p.hasMaxDays THEN p.maxDaysToScan ELSE DefaultMaxDaysToScan

\* a scan that does not look at the selected dates
UsesScan_Always(p) == p.useFirstAvailableAfter

\* selectedDates.length > 0 ... else if (preferences.useFirstAvailableAfter)
UsesScan(p) == Len(p.selectedDates) = 0 /\ p.useFirstAvailableAfter

\* toISOString() of an invalid Date throws a RangeError
BuildThrows(p) == UsesScan(p) /\ p.date = BadDate /\ Radius(p) >= 1

BuildDesiredDatesList(p, z) ==
  LET withSelected == AddSelected(<<p.date>>, p.selectedDates, 1)
  IN  IF UsesScan(p)
      THEN ScanRange(withSelected, p.date, z, 0 - Radius(p), Radius(p))
      ELSE withSelected

\* one call, and the call with the same preferences but for the scan flag and
\* radius
DatesBuilt ==
  /\ built.pc = "idle"
  /\ \E date \in PrimaryDays \cup {BadDate}, selected \in SelectedLists,
        z \in Zones, flag \in BOOLEAN, flag2 \in BOOLEAN,
        hasMax \in BOOLEAN, hasMax2 \in BOOLEAN,
        radius \in 0..MaxRadius, radius2 \in 0..MaxRadius :
       /\ ~hasMax => radius = 0
       /\ ~hasMax2 => radius2 = 0
       /\ LET p == [date |-> date, selectedDates |-> selected,
                    useFirstAvailableAfter |-> flag, hasMaxDays |-> hasMax,
                    maxDaysToScan |-> radius]
              q == [p EXCEPT !.useFirstAvailableAfter = flag2,
                             !.hasMaxDays = hasMax2, !.maxDaysToScan = radius2]
          IN  built' =
                [pc |-> "done", date |-> date, selectedDates |-> selected,
                 useFirstAvailableAfter |-> flag, hasMaxDays |-> hasMax,
                 maxDaysToScan |-> radius, zone |-> z,
                 threw |-> BuildThrows(p),
                 list |-> IF BuildThrows(p) THEN <<>>
                          ELSE BuildDesiredDatesList(p, z),
                 twinFlag |-> flag2, twinHasMax |-> hasMax2,
                 twinRadius |-> radius2,
                 twin |-> IF BuildThrows(q) THEN <<>>
                          ELSE BuildDesiredDatesList(q, z)]
  /\ UNCHANGED <<main, wait, probe, fill, pick, book, popup, plainWait, reply, slot, resyClick, deferred, nav>>

BuildNext == DatesBuilt

SpecBuild == Init /\ [][BuildNext]_vars

\* ------------------------------------ waitForAndClickBookButton, in detail
\* One call of TockFormFiller.waitForAndClickBookButton
\* (src/unnamed/part_009:1603-1672): the mutation observer, the polling
\* chain of setTimeout(checkForBookButton), and the 30 s timer.  A lookup is
\* one call of findBookButton; `shown` says whether it returns a button.

\* resolve(value): only the first call settles the promise
Resolve(b, value) ==
  IF b.resolved = "none" THEN [b EXCEPT !.resolved = value] ELSE b

\* lookups after a click are counted up to this number
MaxLateLookups == 2

\* one call of findBookButton, counted when a click came before it
Lookup(b) ==
  IF b.clicks > 0 /\ b.lookupsAfter < MaxLateLookups
  THEN [b EXCEPT !.lookupsAfter = b.lookupsAfter + 1]
  ELSE b

\* the executor: attempts = 0, observe(document.body), the first
\* checkForBookButton() is due, setTimeout(..., 30000)
BookBegin ==
  /\ book.pc = "idle"
  /\ book' = [book EXCEPT !.pc = "waiting", !.observing = TRUE,
                          !.pollArmed = TRUE, !.timeoutArmed = TRUE]
  /\ UNCHANGED <<main, wait, probe, fill, pick, built, popup, plainWait, reply, slot, resyClick, deferred, nav>>

\* the first five seconds are over
BookPhaseEnds ==
  /\ book.pc = "waiting"
  /\ ~book.late
  /\ book.pollArmed \/ book.timeoutArmed
  /\ book' = [book EXCEPT !.late = TRUE]
  /\ UNCHANGED <<main, wait, probe, fill, pick, built, popup, plainWait, reply, slot, resyClick, deferred, nav>>

\* the observer's callback for added nodes
MutationSeen(shown) ==
  /\ book.pc = "waiting"
  /\ book.observing
  /\ book' = IF shown
             THEN Resolve([Lookup(book) EXCEPT !.observing = FALSE,
                                               !.clicks = book.clicks + 1], "true")
             ELSE Lookup(book)
  /\ UNCHANGED <<main, wait, probe, fill, pick, built, popup, plainWait, reply, slot, resyClick, deferred, nav>>

\* checkForBookButton, run by the call or by its own setTimeout
PollRuns(shown) ==
  /\ book.pc = "waiting"
  /\ book.pollArmed
  /\ LET n == IF book.attempts < MaxAttempts THEN book.attempts + 1
              ELSE MaxAttempts
         b == [Lookup(book) EXCEPT !.attempts = n]
     IN  book' = IF shown
                 THEN Resolve([b EXCEPT !.observing = FALSE, !.pollArmed = FALSE,
                                        !.clicks = b.clicks + 1], "true")
                 ELSE IF n >= MaxAttempts /\ b.late
                      THEN Resolve([b EXCEPT !.observing = FALSE,
                                             !.pollArmed = FALSE], "false")
                 ELSE b
  /\ UNCHANGED <<main, wait, probe, fill, pick, built, popup, plainWait, reply, slot, resyClick, deferred, nav>>

\* the 30 s timer
BookTimeout ==
  /\ book.pc = "waiting"
  /\ book.timeoutArmed
  /\ book.late
  /\ LET b == [book EXCEPT !.timeoutArmed = FALSE, !.observing = FALSE]
     IN  book' = IF b.attempts < MaxAttempts THEN Resolve(b, "false") ELSE b
  /\ UNCHANGED <<main, wait, probe, fill, pick, built, popup, plainWait, reply, slot, resyClick, deferred, nav>>

BookNext ==
  \/ BookBegin
  \/ BookPhaseEnds
  \/ \E shown \in BOOLEAN : MutationSeen(shown)
  \/ \E shown \in BOOLEAN : PollRuns(shown)
  \/ BookTimeout

SpecBook == Init /\ [][BookNext]_vars

\* ---------------------------------------------------------------- popup
\* The popup (App.tsx) keeps the Timer it shows in the React state
\* activeTimer: loaded on mount, set by the answers to SCHEDULE_TIMER and
\* CANCEL_TIMER, and revised every second by pollTimerStatus. The background
\* script's writes of the persisted Timer are followed one storage write at
\* a time.
MaxPolls == 3

PopupAlarmNames == {1, 2}
PopupTimes == {3, 4}

PopupTimer(name, time) ==
  [alarmName |-> name, dropTime |-> time, scheduledTime |-> time,
   status |-> "scheduled", tabId |-> TheTab, id |-> 0]

\* mount: fetchData sets activeTimer to the answer of GET_TIMER_STATUS
PopupOpens ==
  /\ popup.pc = "closed"
  /\ popup' = [popup EXCEPT !.pc = "open", !.activeTimer = popup.persisted]
  /\ UNCHANGED <<main, wait, probe, fill, pick, built, book, plainWait, reply, slot, resyClick, deferred, nav>>

HasChanged(prevTimer, timerStatus) ==
  \/ prevTimer.alarmName # timerStatus.alarmName
  \/ prevTimer.status # timerStatus.status
  \/ prevTimer.scheduledTime # timerStatus.scheduledTime

\* the updater passed to setActiveTimer in pollTimerStatus
SetActiveTimer(prevTimer, timerStatus) ==
  IF prevTimer = Null /\ timerStatus = Null THEN prevTimer
  ELSE IF prevTimer # Null /\ timerStatus = Null
       THEN (IF prevTimer.status = "scheduled" THEN prevTimer ELSE Null)
  ELSE IF prevTimer = Null THEN timerStatus
  ELSE IF HasChanged(prevTimer, timerStatus) THEN timerStatus
  ELSE prevTimer

\* one tick of the 1000 ms interval: GET_TIMER_STATUS answers with the
\* persisted Timer (getTimerStatus = loadActiveTimer), then the updater runs
PollTimerStatus ==
  /\ popup.pc # "closed"
  /\ popup.polls < MaxPolls
  /\ popup' = [popup EXCEPT
                 !.polled = popup.persisted,
                 !.activeTimer = SetActiveTimer(popup.activeTimer,
                                                popup.persisted),
                 !.polls = popup.polls + 1]
  /\ UNCHANGED <<main, wait, probe, fill, pick, built, book, plainWait, reply, slot, resyClick, deferred, nav>>

\* handleSchedule sends SCHEDULE_TIMER (the button is disabled while a
\* scheduled Timer is shown); scheduleTimer first runs cancelTimer, which
\* clears the persisted Timer
PopupScheduleSent ==
  /\ popup.pc = "open"
  /\ popup.activeTimer.status # "scheduled"
  /\ popup' = [popup EXCEPT !.pc = "scheduling", !.persisted = Null]
  /\ UNCHANGED <<main, wait, probe, fill, pick, built, book, plainWait, reply, slot, resyClick, deferred, nav>>

\* scheduleTimer saves the new Timer and answers; setActiveTimer(response.timer)
PopupScheduleAnswered(name, time) ==
  /\ popup.pc = "scheduling"
  /\ popup' = [popup EXCEPT !.pc = "open",
                            !.persisted = PopupTimer(name, time),
                            !.activeTimer = PopupTimer(name, time)]
  /\ UNCHANGED <<main, wait, probe, fill, pick, built, book, plainWait, reply, slot, resyClick, deferred, nav>>

\* handleCancelTimer sends CANCEL_TIMER; cancelTimer saves the Timer with
\* status cancelled
PopupCancelSent ==
  /\ popup.pc = "open"
  /\ popup.activeTimer.status = "scheduled"
  /\ popup' = [popup EXCEPT
                 !.pc = "cancelling",
                 !.persisted = IF popup.persisted = Null THEN Null
                               ELSE [popup.persisted EXCEPT
                                       !.status = "cancelled"]]
  /\ UNCHANGED <<main, wait, probe, fill, pick, built, book, plainWait, reply, slot, resyClick, deferred, nav>>

\* cancelTimer clears the Timer from storage
PopupCancelCleared ==
  /\ popup.pc = "cancelling"
  /\ popup' = [popup EXCEPT !.pc = "cancelCleared", !.persisted = Null]
  /\ UNCHANGED <<main, wait, probe, fill, pick, built, book, plainWait, reply, slot, resyClick, deferred, nav>>

\* the answer to CANCEL_TIMER arrives: setActiveTimer(null)
PopupCancelAnswered ==
  /\ popup.pc = "cancelCleared"
  /\ popup' = [popup EXCEPT !.pc = "open", !.activeTimer = Null]
  /\ UNCHANGED <<main, wait, probe, fill, pick, built, book, plainWait, reply, slot, resyClick, deferred, nav>>

\* the alarm fires: handleAlarmTrigger saves status running
PopupAlarmRuns ==
  /\ popup.persisted.status = "scheduled"
  /\ popup' = [popup EXCEPT !.persisted.status = "running"]
  /\ UNCHANGED <<main, wait, probe, fill, pick, built, book, plainWait, reply, slot, resyClick, deferred, nav>>

\* the attempt ends: handleAlarmTrigger saves completed or failed
PopupRunEnds(status) ==
  /\ popup.persisted.status = "running"
  /\ popup' = [popup EXCEPT !.persisted.status = status]
  /\ UNCHANGED <<main, wait, probe, fill, pick, built, book, plainWait, reply, slot, resyClick, deferred, nav>>

PopupNext ==
  \/ PopupOpens
  \/ PollTimerStatus
  \/ PopupScheduleSent
  \/ \E name \in PopupAlarmNames, time \in PopupTimes :
       PopupScheduleAnswered(name, time)
  \/ PopupCancelSent
  \/ PopupCancelCleared
  \/ PopupCancelAnswered
  \/ PopupAlarmRuns
  \/ \E status \in {"completed", "failed"} : PopupRunEnds(status)

SpecPopup == Init /\ [][PopupNext]_vars

\* ------------------------------------------- waitForTabReload, no timeout
\* The background script of part_005 waits for the reload with a promise
\* that only the tab's completion settles: no timer is armed beside the
\* 150 ms settle delay. Whether the tab ever reports complete is the
\* browser's choice (the tab may be closed or the load may stall).
PlainWaitBegin ==
  /\ plainWait.pc = "idle"
  /\ plainWait' = [plainWait EXCEPT !.pc = "waiting", !.listening = TRUE]
  /\ UNCHANGED <<main, wait, probe, fill, pick, built, book, popup, reply, slot, resyClick, deferred, nav>>

\* the listener: on the Timer's tab reporting complete it removes itself and
\* starts the 150 ms timer
PlainTabUpdated(e) ==
  /\ plainWait.pc # "idle"
  /\ Len(plainWait.updates) < MaxEvents
  /\ plainWait' =
       [(IF plainWait.listening /\ ListenerMatches(e, TheTab)
         THEN [plainWait EXCEPT !.listening = FALSE, !.settleArmed = TRUE]
         ELSE plainWait)
          EXCEPT !.updates = Append(plainWait.updates, e)]
  /\ UNCHANGED <<main, wait, probe, fill, pick, built, book, popup, reply, slot, resyClick, deferred, nav>>

\* the 150 ms timer fires: resolve()
PlainSettleFires ==
  /\ plainWait.settleArmed
  /\ plainWait' = [plainWait EXCEPT !.settleArmed = FALSE,
                                    !.resolves = plainWait.resolves + 1,
                                    !.pc = "done"]
  /\ UNCHANGED <<main, wait, probe, fill, pick, built, book, popup, reply, slot, resyClick, deferred, nav>>

PlainWaitNext ==
  \/ PlainWaitBegin
  \/ \E e \in UpdateEvents : PlainTabUpdated(e)
  \/ PlainSettleFires

\* timers that are armed fire; tab updates are not owed by anyone
SpecPlainWait ==
  Init /\ [][PlainWaitNext]_vars /\ WF_vars(PlainWaitBegin)
       /\ WF_vars(PlainSettleFires)

\* ------------------------------------------ the AUTO_FILL_FORM listener
\* The content script's onMessage listener, from the message to the
\* response. currentPlatform is detectPlatform(window.location.href), "none"
\* when it is null, computed when the script is loaded; the payload is {preferences, datesToTry} or the bare
\* preferences; datesToTry is absent, empty or filled; alarmFireTime is set
\* in the preferences of a scheduled run and absent in a manual one.
NoPlatform == "none"

\* A URL is the sequence of the labels of its host followed by the segments
\* of its path; a pattern such as 'opentable.co.uk' is the sequence of its
\* labels. The labels of the pages below do not contain one another, so
\* String.includes is the search for the pattern's labels in a row.
Includes(url, part) ==
  \E i \in 0..(Len(url) - Len(part)) : SubSeq(url, i + 1, i + Len(part)) = part

\* String.toLowerCase, label by label
ToLowerCase(url) ==
  [i \in 1..Len(url) |->
     CASE url[i] = "ExploreTock" -> "exploretock"
       [] url[i] = "OpenTable" -> "opentable"
       [] url[i] = "Resy" -> "resy"
       [] OTHER -> url[i]]

\* the domains that detectPlatform lists for OpenTable
OpenTableDomains ==
  {<<"opentable", "com">>, <<"opentable", "co", "uk">>, <<"opentable", "ca">>,
   <<"opentable", "jp">>, <<"opentable", "de">>, <<"opentable", "es">>,
   <<"opentable", "fr">>, <<"opentable", "it">>, <<"opentable", "nl">>,
   <<"opentable", "com", "au">>, <<"opentable", "com", "mx">>,
   <<"opentable", "ie">>, <<"opentable", "sg">>, <<"opentable", "hk">>,
   <<"opentable", "ae">>, <<"opentable", "co", "th">>,
   <<"opentable", "com", "tw">>}

\* detectPlatform: 'tock', 'opentable' or null; no branch returns 'resy'
DetectPlatform(url) ==
  LET urlLower == ToLowerCase(url)
  IN IF Includes(urlLower, <<"exploretock", "com">>)
     THEN "tock"
     ELSE IF \E domain \in OpenTableDomains : Includes(urlLower, domain)
          THEN "opentable"
          ELSE NoPlatform

\* the pages the content script's main logic is loaded in: venue pages of
\* the three sites, as the address bar shows them, and a page of no site
Pages ==
  {[site |-> "tock", href |-> <<"www", "exploretock", "com", "tfl">>],
   [site |-> "tock", href |-> <<"www", "ExploreTock", "com", "tfl">>],
   [site |-> "opentable", href |-> <<"www", "opentable", "com", "r", "nobu">>],
   [site |-> "opentable",
    href |-> <<"www", "opentable", "co", "uk", "r", "nobu">>],
   [site |-> "opentable", href |-> <<"www", "OpenTable", "de", "r", "nobu">>],
   [site |-> "resy",
    href |-> <<"resy", "com", "cities", "los-angeles-ca", "venues", "jeffs">>],
   [site |-> "resy",
    href |-> <<"Resy", "com", "cities", "new-york-ny", "venues", "carbone">>],
   [site |-> "none", href |-> <<"www", "example", "com">>]}

\* new TockFormFiller, new OpenTableFormFiller or new ResyFormFiller
FormFillerOf(platform) ==
  CASE platform = "tock" -> "TockFormFiller"
    [] platform = "opentable" -> "OpenTableFormFiller"
    [] platform = "resy" -> "ResyFormFiller"
    [] OTHER -> "none"

DatesToTryShapes == {"absent", "empty", "filled"}

\* how an adapter's entry point settles: with true or false, or with an
\* exception
AdapterOutcomes == {"true", "false", "threw"}

\* try { return await formFiller.fill() } catch { return false }
Caught(outcome) == IF outcome = "threw" THEN "false" ELSE outcome

\* the listener runs: multi-date mode calls tryMultipleDates (Tock) or
\* fillForm (Resy) and answers at once on any other platform; single-date
\* mode calls handleFormFill; the listener returns true
ListenerRuns(page, wrapped, dates, timed) ==
  /\ reply.pc = "idle"
  /\ dates # "absent" => wrapped
  /\ LET currentPlatform == DetectPlatform(page.href)
         got == [reply EXCEPT !.site = page.site, !.href = page.href,
                              !.platform = currentPlatform,
                              !.wrapped = wrapped,
                              !.dates = dates, !.timed = timed]
     IN reply' =
          IF dates = "filled"
          THEN IF currentPlatform \in {"tock", "resy"}
               THEN [got EXCEPT !.pc = "adapter",
                                !.adapter = FormFillerOf(currentPlatform)]
               ELSE [got EXCEPT !.pc = "done", !.responses = 1,
                                !.success = "false"]
          ELSE [got EXCEPT !.pc = "handleFormFill"]
  /\ UNCHANGED <<main, wait, probe, fill, pick, built, book, popup, plainWait, slot, resyClick, deferred, nav>>

\* handleFormFill: false without a platform, else the platform's adapter is
\* built and its fill (fillForm for Resy) is awaited inside the try block
HandleFormFillRuns ==
  /\ reply.pc = "handleFormFill"
  /\ reply' = IF reply.platform = NoPlatform
              THEN [reply EXCEPT !.pc = "settled", !.settled = "false"]
              ELSE [reply EXCEPT !.pc = "adapter", !.inner = TRUE,
                                 !.adapter = FormFillerOf(reply.platform)]
  /\ UNCHANGED <<main, wait, probe, fill, pick, built, book, popup, plainWait, slot, resyClick, deferred, nav>>

\* the adapter's promise settles; inside handleFormFill an exception is
\* caught and becomes false
AdapterSettles(outcome) ==
  /\ reply.pc = "adapter"
  /\ reply' = [reply EXCEPT
                 !.pc = "settled",
                 !.threw = (outcome = "threw"),
                 !.settled = IF reply.inner THEN Caught(outcome) ELSE outcome]
  /\ UNCHANGED <<main, wait, probe, fill, pick, built, book, popup, plainWait, slot, resyClick, deferred, nav>>

\* a promise chain with .then only
SuccessSent_ThenOnly(settled) == settled

\* .then(success => sendResponse({success})) or
\* .catch(error => sendResponse({success: false, error: error.message}))
SuccessSent(settled) == IF settled = "threw" THEN "false" ELSE settled

\* the chain attached by the listener runs and sends the response
Respond ==
  /\ reply.pc = "settled"
  /\ reply' = [reply EXCEPT
                 !.pc = "done",
                 !.responses = reply.responses + 1,
                 !.success = SuccessSent(reply.settled)]
  /\ UNCHANGED <<main, wait, probe, fill, pick, built, book, popup, plainWait, slot, resyClick, deferred, nav>>

ReplyNext ==
  \/ \E page \in Pages, wrapped \in BOOLEAN,
        dates \in DatesToTryShapes, timed \in BOOLEAN :
       ListenerRuns(page, wrapped, dates, timed)
  \/ HandleFormFillRuns
  \/ \E outcome \in AdapterOutcomes : AdapterSettles(outcome)
  \/ Respond

SpecReply == Init /\ [][ReplyNext]_vars

\* ------------------------------- OpenTable's waitForAndClickTimeSlot
\* The promise is settled through resolveOnce by the mutation observer, by
\* the polling check (every 500 ms, at most maxAttempts checks) or by the
\* 10 s timer. All three callbacks are synchronous. Whether
\* findMatchingTimeSlot finds a button at a given moment is the page's choice.
MaxLateCallbacks == 2
MaxMutations == 3

\* resolveOnce(value): if (!resolved) { resolved = true;
\* observer.disconnect(); if (timeoutId !== null) clearTimeout(timeoutId);
\* resolve(value) }
ResolveOnce(w, value, who) ==
  IF w.resolved THEN w
  ELSE [w EXCEPT !.resolved = TRUE, !.observing = FALSE,
                 !.timeoutArmed = FALSE, !.settles = w.settles + 1,
                 !.value = value, !.by = who]

\* callbacks without the check of `resolved`
AlreadyResolved_Ignored(w) == FALSE

\* if (resolved) return
AlreadyResolved(w) == w.resolved

\* a callback that returns at once
Late(w) == [w EXCEPT !.late = IF w.late < MaxLateCallbacks THEN w.late + 1
                                ELSE w.late]

\* button.click(); resolveOnce(true)
ClickSlot(w, who) ==
  ResolveOnce([w EXCEPT !.clicks = w.clicks + 1], "true", who)

\* checkForTimeSlots: one polling check
CheckForTimeSlots(w, found, who) ==
  IF AlreadyResolved(w) THEN Late(w)
  ELSE LET counted == [w EXCEPT !.attempts = w.attempts + 1]
       IN IF found THEN ClickSlot(counted, who)
          ELSE IF counted.attempts >= MaxAttempts
               THEN ResolveOnce(counted, "false", who)
          ELSE [counted EXCEPT !.pollArmed = TRUE]

\* the call: attempts = 0, the observer is attached, the first check runs at
\* once, and only then the 10 s timer is armed
SlotWaitBegin(found) ==
  /\ slot.pc = "idle"
  /\ slot' = [CheckForTimeSlots([slot EXCEPT !.pc = "running",
                                             !.observing = TRUE],
                                found, "first")
                EXCEPT !.timeoutArmed = TRUE]
  /\ UNCHANGED <<main, wait, probe, fill, pick, built, book, popup, plainWait,
                 reply, resyClick, deferred, nav>>

\* the page changes and the observer's callback runs
SlotObserved(found) ==
  /\ slot.observing
  /\ slot.mutations < MaxMutations
  /\ slot' = LET seen == [slot EXCEPT !.mutations = slot.mutations + 1]
             IN IF AlreadyResolved(seen) THEN Late(seen)
                ELSE IF found THEN ClickSlot(seen, "observer")
                ELSE seen
  /\ UNCHANGED <<main, wait, probe, fill, pick, built, book, popup, plainWait,
                 reply, resyClick, deferred, nav>>

\* the 500 ms timer of the polling check fires
SlotPolled(found) ==
  /\ slot.pollArmed
  /\ slot' = CheckForTimeSlots([slot EXCEPT !.pollArmed = FALSE], found,
                               "poll")
  /\ UNCHANGED <<main, wait, probe, fill, pick, built, book, popup, plainWait,
                 reply, resyClick, deferred, nav>>

\* the 10 s timer fires: if (!resolved) resolveOnce(false)
SlotTimeout ==
  /\ slot.timeoutArmed
  /\ slot' = LET fired == [slot EXCEPT !.timeoutArmed = FALSE]
             IN IF AlreadyResolved(fired) THEN Late(fired)
                ELSE ResolveOnce(fired, "false", "timeout")
  /\ UNCHANGED <<main, wait, probe, fill, pick, built, book, popup, plainWait,
                 reply, resyClick, deferred, nav>>

SlotWaitNext ==
  \/ \E found \in BOOLEAN : SlotWaitBegin(found)
  \/ \E found \in BOOLEAN : SlotObserved(found)
  \/ \E found \in BOOLEAN : SlotPolled(found)
  \/ SlotTimeout

SpecSlotWait == Init /\ [][SlotWaitNext]_vars

\* ---------------------------------------------------- Resy's clickTimeSlot
\* findAndClickSlot clicks the slot closest to the preferred time among the
\* buttons on the page at that moment and returns true, or returns false when
\* there is none. Which slot that is (1..MaxSlots, NoSlot for none) is the
\* page's choice; `clicked` lists the slots clicked so far.
NoSlot == 0
SlotIndexes == 1..MaxSlots

\* resolve(value): only the first call settles the promise
ResyResolve(c, value) ==
  IF c.resolved = "none" THEN [c EXCEPT !.resolved = value] ELSE c

\* findAndClickSlot() followed by resolve(true) when it clicked
FindAndClickSlot(c, choice) ==
  IF choice = NoSlot THEN c
  ELSE ResyResolve(
         [c EXCEPT !.clicked = Append(c.clicked, choice),
                   !.clicksAfter = IF c.resolved = "none" THEN c.clicksAfter
                                   ELSE c.clicksAfter + 1],
         "true")

\* the call: a slot found at once is clicked and the promise resolved with
\* neither observer nor timer; else the observer is attached and the timer
\* armed
ResyClickBegin(choice) ==
  /\ resyClick.pc = "idle"
  /\ resyClick' =
       IF choice # NoSlot
       THEN [FindAndClickSlot(resyClick, choice) EXCEPT !.pc = "done"]
       ELSE [resyClick EXCEPT !.pc = "waiting", !.observing = TRUE,
                              !.timeoutArmed = TRUE]
  /\ UNCHANGED <<main, wait, probe, fill, pick, built, book, popup, plainWait,
                 reply, slot, deferred, nav>>

\* the observer's callback: click and resolve(true), or resolve(false) when
\* more than `timeout` ms have passed, or nothing; `expired` is the clock's
\* answer
ResyClickObserved(choice, expired) ==
  /\ resyClick.observing
  /\ resyClick.mutations < MaxMutations
  /\ resyClick' =
       LET seen == [resyClick EXCEPT !.mutations = resyClick.mutations + 1]
       IN IF choice # NoSlot
          THEN [FindAndClickSlot(seen, choice) EXCEPT !.observing = FALSE]
          ELSE IF expired
               THEN [ResyResolve(seen, "false") EXCEPT !.observing = FALSE]
          ELSE seen
  /\ UNCHANGED <<main, wait, probe, fill, pick, built, book, popup, plainWait,
                 reply, slot, deferred, nav>>

\* the timer fires after `timeout` ms: observer.disconnect(), then
\* findAndClickSlot() and resolve with its result
ResyClickTimeout(choice) ==
  /\ resyClick.timeoutArmed
  /\ resyClick' =
       LET fired == [resyClick EXCEPT !.timeoutArmed = FALSE,
                                      !.observing = FALSE, !.pc = "done"]
       IN IF choice # NoSlot THEN FindAndClickSlot(fired, choice)
          ELSE ResyResolve(fired, "false")
  /\ UNCHANGED <<main, wait, probe, fill, pick, built, book, popup, plainWait,
                 reply, slot, deferred, nav>>

\* clickReserveButton, which fillForm calls 1500 ms after clickTimeSlot
\* resolved true. The button is clicked in the main page when it is there
\* and visible; else a CLICK_RESERVE_BUTTON request is sent with
\* chrome.runtime.sendMessage, which reaches the extension's background
\* script (it has no handler for the type) and no frame of the page, so the
\* callback gets an error or an empty answer and arms a 500 ms retry.
MaxPending == 2

ReserveResolve(c, value) ==
  IF c.reserveResolved = "none" THEN [c EXCEPT !.reserveResolved = value]
  ELSE c

\* tryClickButton()
TryClickButton(c, inMain, expired) ==
  IF c.reserveResolved # "none" THEN c
  ELSE IF expired THEN ReserveResolve(c, "false")
  ELSE IF inMain
       THEN ReserveResolve([c EXCEPT !.reserveClicks = c.reserveClicks + 1],
                           "true")
  ELSE [c EXCEPT !.reserveRequests = c.reserveRequests + 1]

\* the call: observer attached, tryClickButton() at once, 15 s timer armed
ReserveBegin(inMain) ==
  /\ resyClick.resolved = "true"
  /\ resyClick.reservePc = "idle"
  /\ resyClick' =
       TryClickButton([resyClick EXCEPT !.reservePc = "waiting",
                                        !.reserveObserving = TRUE,
                                        !.reserveTimeoutArmed = TRUE],
                      inMain, FALSE)
  /\ UNCHANGED <<main, wait, probe, fill, pick, built, book, popup, plainWait,
                 reply, slot, deferred, nav>>

\* the observer's callback: tryClickButton() while unresolved, else
\* observer.disconnect()
ReserveObserved(inMain, expired) ==
  /\ resyClick.reserveObserving
  /\ resyClick.reserveRequests < MaxPending
  /\ resyClick' =
       IF resyClick.reserveResolved = "none"
       THEN TryClickButton(resyClick, inMain, expired)
       ELSE [resyClick EXCEPT !.reserveObserving = FALSE]
  /\ UNCHANGED <<main, wait, probe, fill, pick, built, book, popup, plainWait,
                 reply, slot, deferred, nav>>

\* the callback of a request runs (lastError or no success): retry in 500 ms
ReserveAnswered ==
  /\ resyClick.reserveRequests > 0
  /\ resyClick.reserveRetries < MaxPending
  /\ resyClick' = [resyClick EXCEPT
                     !.reserveRequests = resyClick.reserveRequests - 1,
                     !.reserveRetries = resyClick.reserveRetries + 1]
  /\ UNCHANGED <<main, wait, probe, fill, pick, built, book, popup, plainWait,
                 reply, slot, deferred, nav>>

\* a 500 ms retry timer fires: tryClickButton()
ReserveRetry(inMain, expired) ==
  /\ resyClick.reserveRetries > 0
  /\ resyClick.reserveRequests < MaxPending
  /\ resyClick' =
       TryClickButton([resyClick EXCEPT
                         !.reserveRetries = resyClick.reserveRetries - 1],
                      inMain, expired)
  /\ UNCHANGED <<main, wait, probe, fill, pick, built, book, popup, plainWait,
                 reply, slot, deferred, nav>>

\* the 15 s timer fires: observer.disconnect(); resolve(false) if unresolved
ReserveTimeout ==
  /\ resyClick.reserveTimeoutArmed
  /\ resyClick' =
       [ReserveResolve(resyClick, "false") EXCEPT
          !.reserveTimeoutArmed = FALSE, !.reserveObserving = FALSE,
          !.reservePc = "done"]
  /\ UNCHANGED <<main, wait, probe, fill, pick, built, book, popup, plainWait,
                 reply, slot, deferred, nav>>

ResyClickNext ==
  \/ \E choice \in SlotIndexes \cup {NoSlot} : ResyClickBegin(choice)
  \/ \E choice \in SlotIndexes \cup {NoSlot}, expired \in BOOLEAN :
       ResyClickObserved(choice, expired)
  \/ \E choice \in SlotIndexes \cup {NoSlot} : ResyClickTimeout(choice)
  \/ \E inMain \in BOOLEAN : ReserveBegin(inMain)
  \/ \E inMain, expired \in BOOLEAN : ReserveObserved(inMain, expired)
  \/ ReserveAnswered
  \/ \E inMain, expired \in BOOLEAN : ReserveRetry(inMain, expired)
  \/ ReserveTimeout

SpecResyClick == Init /\ [][ResyClickNext]_vars

\* ------------------------- scheduleTimer over a deferred deletion (part_005)
\* The background script of part_005: cancelTimer saves the Timer as
\* cancelled and leaves its deletion to a one-second timer, and scheduleTimer
\* begins with `await cancelTimer()`. The record is the activeTimer key of
\* chrome.storage.local, reduced to its alarm name and status; the alarm
\* name of the n-th call stands for `tock-autofill-${Date.now()}`. The
\* browser decides when a timer that is armed fires, so the deletion may run
\* at any later step; calls follow one another.
MaxReplacements == 3

ScheduleRequests == {"ok", "noDropTime", "past"}

\* scheduleTimer is called; cancelTimer's loadActiveTimer returns
DeferredScheduleBegin(request) ==
  /\ deferred.pc \in {"idle", "done"}
  /\ deferred.calls < MaxReplacements
  /\ deferred' = [deferred EXCEPT !.pc = "cancelLoaded",
                                  !.request = request,
                                  !.calls = deferred.calls + 1,
                                  !.loaded = deferred.record]
  /\ UNCHANGED <<main, wait, probe, fill, pick, built, book, popup, plainWait,
                 reply, slot, resyClick, nav>>

\* cancelTimer: nothing to cancel, or chrome.alarms.clear of the loaded name
DeferredCancelClears ==
  /\ deferred.pc = "cancelLoaded"
  /\ deferred' =
       IF deferred.loaded = NoRecord
       THEN [deferred EXCEPT !.pc = "cancelled"]
       ELSE [deferred EXCEPT !.pc = "cancelCleared",
                             !.armed = deferred.armed
                                         \ {deferred.loaded.alarmName}]
  /\ UNCHANGED <<main, wait, probe, fill, pick, built, book, popup, plainWait,
                 reply, slot, resyClick, nav>>

\* cancelTimer: the loaded copy is saved as cancelled, then the one-second
\* timer of the deletion is armed
DeferredCancelSaves ==
  /\ deferred.pc = "cancelCleared"
  /\ deferred' = [deferred EXCEPT !.pc = "cancelled",
                                  !.record = [deferred.loaded EXCEPT
                                                !.status = "cancelled"],
                                  !.pending = deferred.pending + 1]
  /\ UNCHANGED <<main, wait, probe, fill, pick, built, book, popup, plainWait,
                 reply, slot, resyClick, nav>>

\* scheduleTimer after cancelTimer: the two throws, else chrome.alarms.create
DeferredCreateAlarm ==
  /\ deferred.pc = "cancelled"
  /\ deferred' =
       IF deferred.request # "ok"
       THEN [deferred EXCEPT !.pc = "done"]
       ELSE [deferred EXCEPT !.pc = "created",
                             !.armed = deferred.armed \cup {deferred.calls}]
  /\ UNCHANGED <<main, wait, probe, fill, pick, built, book, popup, plainWait,
                 reply, slot, resyClick, nav>>

\* scheduleTimer: saveActiveTimer of the new Timer
DeferredSaves ==
  /\ deferred.pc = "created"
  /\ deferred' = [deferred EXCEPT !.pc = "saved",
                                  !.record = [alarmName |-> deferred.calls,
                                              status |-> "scheduled"]]
  /\ UNCHANGED <<main, wait, probe, fill, pick, built, book, popup, plainWait,
                 reply, slot, resyClick, nav>>

\* scheduleTimer: the navigation, which changes neither the record nor the
\* alarms and whose errors are caught, then `return timer`
DeferredReturn ==
  /\ deferred.pc = "saved"
  /\ deferred' = [deferred EXCEPT !.pc = "done",
                                  !.returned = deferred.returned
                                                 \cup {deferred.calls}]
  /\ UNCHANGED <<main, wait, probe, fill, pick, built, book, popup, plainWait,
                 reply, slot, resyClick, nav>>

\* the one-second timer fires: clearActiveTimer(), whatever is stored
DeferredDeletionRuns ==
  /\ deferred.pending > 0
  /\ deferred' = [deferred EXCEPT !.pending = deferred.pending - 1,
                                  !.record = NoRecord]
  /\ UNCHANGED <<main, wait, probe, fill, pick, built, book, popup, plainWait,
                 reply, slot, resyClick, nav>>

\* an alarm fires: handleAlarmTrigger loads the record and returns when there
\* is none or it has another alarm name, else saves it as running
DeferredAlarmFires(name) ==
  /\ name \in deferred.armed
  /\ deferred.running = 0
  /\ deferred' =
       IF deferred.record = NoRecord \/ deferred.record.alarmName # name
       THEN [deferred EXCEPT !.armed = deferred.armed \ {name},
                             !.missed = deferred.missed \cup {name}]
       ELSE [deferred EXCEPT !.armed = deferred.armed \ {name},
                             !.found = deferred.found \cup {name},
                             !.running = name,
                             !.record = [deferred.record EXCEPT
                                           !.status = "running"]]
  /\ UNCHANGED <<main, wait, probe, fill, pick, built, book, popup, plainWait,
                 reply, slot, resyClick, nav>>

\* the attempt and its retries end: the handler saves its copy as completed
\* or failed
DeferredRunEnds(status) ==
  /\ deferred.running # 0
  /\ deferred' = [deferred EXCEPT !.running = 0,
                                  !.record = [alarmName |-> deferred.running,
                                              status |-> status]]
  /\ UNCHANGED <<main, wait, probe, fill, pick, built, book, popup, plainWait,
                 reply, slot, resyClick, nav>>

DeferredNext ==
  \/ \E request \in ScheduleRequests : DeferredScheduleBegin(request)
  \/ DeferredCancelClears
  \/ DeferredCancelSaves
  \/ DeferredCreateAlarm
  \/ DeferredSaves
  \/ DeferredReturn
  \/ DeferredDeletionRuns
  \/ \E name \in 1..MaxReplacements : DeferredAlarmFires(name)
  \/ \E status \in {"completed", "failed"} : DeferredRunEnds(status)

SpecDeferred == Init /\ [][DeferredNext]_vars


\* ------------------------------ scheduleTimer: the navigation at its end
\* One scheduleTimer call from its saveActiveTimer on. The tab is what
\* chrome.tabs.get yields: a rejection (the tab is gone), a tab without url,
\* or a tab whose url is a host and a path; the preferences are those of the
\* SCHEDULE_TIMER message. The query of a URL is the sequence of its
\* parameters in the order they are set, before their percent-encoding.
TockHost == <<"www", "exploretock", "com">>

TabUrls ==
  {[host |-> TockHost, path |-> <<>>, query |-> <<>>],
   [host |-> TockHost, path |-> <<"tfl">>, query |-> <<>>],
   [host |-> TockHost, path |-> <<"tfl", "search">>,
    query |-> <<"date=2025-11-01", "size=4", "time=18:00">>],
   [host |-> <<"www", "ExploreTock", "com">>, path |-> <<"", "tfl", "">>,
    query |-> <<>>],
   [host |-> <<"www", "opentable", "com">>, path |-> <<"r", "nobu">>,
    query |-> <<>>],
   [host |-> <<"www", "example", "com">>, path |-> <<>>, query |-> <<>>]}

NavPreferences ==
  [date : {"", "2025-11-07"}, time : {"", "20:00"},
   partySize : {"undefined", "2"}]

\* buildTockSearchUrl: null without a path segment, a date or a time, and
\* when partySize.toString() throws inside its try block
BuildTockSearchUrl(baseUrl, preferences) ==
  LET pathParts == SelectSeq(baseUrl.path, LAMBDA part : part # "")
  IN IF Len(pathParts) = 0 \/ preferences.date = ""
        \/ preferences.time = "" \/ preferences.partySize = "undefined"
     THEN NoUrl
     ELSE [host |-> TockHost,
           path |-> <<pathParts[1], "search">>,
           query |-> <<"date=" \o preferences.date,
                       "size=" \o preferences.partySize,
                       "time=" \o preferences.time>>]

\* the alarm is armed and the Timer is saved as scheduled
NavSaved(lookup, url, preferences) ==
  /\ nav.pc = "idle"
  /\ (lookup = "url") = (url # NoUrl)
  /\ nav' = [nav EXCEPT !.pc = "saved", !.lookup = lookup, !.url = url,
                        !.prefs = preferences, !.persisted = "scheduled",
                        !.armed = TRUE]
  /\ UNCHANGED <<main, wait, probe, fill, pick, built, book, popup, plainWait,
                 reply, slot, resyClick, deferred>>

\* what scheduleTimer does after the try block: a caught error is logged and
\* the timer is returned
AfterNavigation_Rethrown(caught) == IF caught THEN "threw" ELSE "timer"

AfterNavigation(caught) == "timer"

\* chrome.tabs.get settles; on a Tock tab whose search URL can be built
\* chrome.tabs.update is issued, otherwise the try block ends
NavLookup ==
  /\ nav.pc = "saved"
  /\ LET searchUrl == BuildTockSearchUrl(nav.url, nav.prefs)
     IN nav' =
          IF nav.lookup = "throws"
          THEN [nav EXCEPT !.pc = "returned", !.caught = TRUE,
                           !.returned = AfterNavigation(TRUE)]
          ELSE IF /\ nav.lookup = "url"
                  /\ DetectPlatform(nav.url.host \o nav.url.path) = "tock"
                  /\ searchUrl # NoUrl
               THEN [nav EXCEPT !.pc = "updating", !.target = searchUrl]
               ELSE [nav EXCEPT !.pc = "returned",
                                !.returned = AfterNavigation(FALSE)]
  /\ UNCHANGED <<main, wait, probe, fill, pick, built, book, popup, plainWait,
                 reply, slot, resyClick, deferred>>

\* chrome.tabs.update settles: the tab goes to the URL, or the rejection is
\* caught
NavUpdateSettles(ok) ==
  /\ nav.pc = "updating"
  /\ nav' = [nav EXCEPT !.pc = "returned",
                        !.updated = IF ok THEN "ok" ELSE "threw",
                        !.navigatedTo = IF ok THEN nav.target ELSE NoUrl,
                        !.caught = ~ok,
                        !.returned = AfterNavigation(~ok)]
  /\ UNCHANGED <<main, wait, probe, fill, pick, built, book, popup, plainWait,
                 reply, slot, resyClick, deferred>>

NavNext ==
  \/ \E lookup \in {"throws", "noUrl", "url"}, url \in TabUrls \cup {NoUrl},
        preferences \in NavPreferences :
       NavSaved(lookup, url, preferences)
  \/ NavLookup
  \/ \E ok \in BOOLEAN : NavUpdateSettles(ok)

SpecNav == Init /\ [][NavNext]_vars

\* ================================================================ claims

\* C1 (as claimed): every change of the persisted Timer's status is one of
\* scheduled->running, running->completed, running->failed,
\* scheduled->cancelled, so a completed, failed or cancelled Timer never
\* changes status again.
StatusChanged ==
  /\ storage # Null
  /\ storage' # Null
  /\ storage'.id = storage.id
  /\ storage'.status # storage.status

AllowedChanges ==
  {<<"scheduled", "running">>, <<"running", "completed">>,
   <<"running", "failed">>, <<"scheduled", "cancelled">>}

C1_OnlyStateMachineChanges ==
  [][StatusChanged => <<storage.status, storage'.status>> \in AllowedChanges]_vars

\* C2: after two successful scheduleTimer calls run back to back, the one
\* persisted Timer is the second call's (name, drop time, fire time, tab id,
\* status scheduled), its alarm is armed, and no alarm of the first call's
\* name is armed other than the second call's own.
C2_SecondScheduleReplacesFirst ==
  prevSched # Null =>
    /\ storage = lastSched
    /\ storage.status = "scheduled"
    /\ AlarmOf(lastSched) \in alarms
    /\ \A a \in alarms : a.name = prevSched.alarmName => a = AlarmOf(lastSched)

C2_Witness ==
  /\ prevSched # Null
  /\ prevSched.alarmName # lastSched.alarmName
  /\ prevSched.scheduledTime # lastSched.scheduledTime
  /\ storage = lastSched

\* C3 (as claimed): a scheduleTimer call that fails because its fire time is
\* in the past, made while a scheduled Timer is persisted with its alarm
\* armed, leaves that Timer and its alarm as they were.
C3_FailedScheduleKeepsTimer ==
  [][\A i \in 1..MaxSchedules :
       ( /\ sched[i].pc \notin Resting
         /\ sched'[i].resp = "Scheduled time is in the past"
         /\ sched[i].alone
         /\ sched[i].at.status = "scheduled"
         /\ sched[i].preArmed )
       => /\ storage' = sched[i].at
          /\ AlarmOf(sched[i].at) \in alarms']_vars

\* C4: once handleAlarmTrigger has saved status running, the persisted
\* status becomes completed or failed when that run ends, whatever the tab
\* lookup, the reload, the wait and the page answer (unless the browser is
\* shut down under the run).
C4_RunningEnds ==
  \A h \in 1..MaxFires :
    (handler[h].pc = "running")
      ~> ( \/ handler[h].pc = "done" /\ storage.status \in {"completed", "failed"}
           \/ handler[h].pc = "killed" )

C4_Witness ==
  \E h \in 1..MaxFires :
    /\ handler[h].pc = "done"
    /\ storage.status = "failed"

\* C5: a cancelTimer call on a scheduled Timer that runs on its own clears
\* the Timer's alarm, then saves status cancelled, then deletes the record;
\* from its end GET_TIMER_STATUS answers null until a scheduleTimer call
\* persists a new Timer.
C5_CancelScheduled ==
  /\ \A c \in 1..MaxCancels :
       (cancel[c].alone /\ cancel[c].at.status = "scheduled") =>
         /\ cancel[c].pc = "cleared" =>
              /\ ~\E a \in alarms : a.name = cancel[c].at.alarmName
              /\ storage = cancel[c].at
         /\ cancel[c].pc = "saved" =>
              /\ ~\E a \in alarms : a.name = cancel[c].at.alarmName
              /\ storage = CancelledCopy(cancel[c].at)
         /\ cancel[c].pc = "deleted" => storage = Null
  /\ cancelQuiet => GetTimerStatus = Null

C5_Witness ==
  /\ cancelQuiet
  /\ GetTimerStatus = Null
  /\ \E c \in 1..MaxCancels : cancel[c].pc = "done"
  /\ cancelledIds # {}
  /\ alarms = {}

\* C6: a handler run whose loaded record is missing or carries another alarm
\* name ends at once: storage, alarms and the other calls are untouched, and
\* it has reloaded no tab and messaged no page.
C6_StaleAlarmIsNoOp ==
  [][\A h \in 1..MaxFires :
       ( /\ handler[h].pc = "loaded"
         /\ \/ handler[h].at = Null
            \/ handler[h].at.alarmName # handler[h].alarmName
         /\ handler'[h] # handler[h] )
       => /\ handler'[h].pc \in {"done", "killed"}
          /\ handler'[h].reloads = 0
          /\ handler'[h].adapterCalls = 0
          /\ handler'[h].pc = "done" => UNCHANGED <<aside, overlapCap, storage, alarms, sched, cancel>>]_vars

C6_Witness ==
  \E h \in 1..MaxFires :
    /\ handler[h].pc = "loaded"
    /\ handler[h].at # Null
    /\ handler[h].at.alarmName # handler[h].alarmName
    /\ storage = handler[h].at

\* C7 (as claimed): at most one alarm of the scheduler is armed at any time.
C7_AtMostOneAlarm == Cardinality(alarms) <= 1

\* C8 (as claimed): handleAlarmTrigger writes a status only onto the record
\* it loaded: at each of its writes the persisted record still is that Timer.
HandlerWrites(h) ==
  /\ handler[h].pc \notin Resting
  /\ handler'[h] # handler[h]
  /\ storage' # storage
  /\ storage' = WithStatus(handler[h].at, storage'.status)

C8_WritesOnlyLoadedRecord ==
  [][\A h \in 1..MaxFires :
       HandlerWrites(h) =>
         storage # Null /\ storage.id = handler[h].at.id]_vars

\* C9 (as claimed): an alarm event that comes after the cancelTimer call for
\* its Timer has completed is dropped by the handler: no status write, no
\* reload, no message to the page.
C9_NoEffectAfterCancel ==
  \A h \in 1..MaxFires :
    handler[h].late =>
      handler[h].pc = "loaded" /\ StaleAlarm(handler[h].at, handler[h].alarmName)

\* C10 (as claimed): with auto-refresh enabled and N refresh attempts, a run
\* on which the page reports failure ends failed only after N reloads and N
\* adapter invocations.
C10_RefreshRetries ==
  [][\A h \in 1..MaxFires :
       ( /\ handler[h].pc = "messageSent"
         /\ handler'[h].pc = "done"
         /\ handler[h].reloads > 0
         /\ handler[h].autoRefresh
         /\ storage'.status = "failed" )
       => /\ handler[h].adapterCalls = handler[h].maxRefresh
          /\ handler[h].reloads = handler[h].maxRefresh]_vars

\* C11 (as claimed): with auto-refresh enabled, an attempt on which the page
\* reports failure while refresh attempts remain is followed by another
\* attempt, so a run can end before its last attempt only as completed.
C11_RetryUntilSuccess ==
  [][\A h \in 1..MaxFires :
       ( /\ handler[h].pc = "messageSent"
         /\ handler'[h].pc = "done"
         /\ handler[h].reloads > 0
         /\ handler[h].autoRefresh
         /\ handler[h].adapterCalls < handler[h].maxRefresh )
       => storage'.status = "completed"]_vars

\* C12: a start-up run that found a scheduled Timer whose alarm was not
\* armed when the browser started ends in one of two ways.  If the fire time
\* is still ahead, an alarm of the Timer's own name, due at its fire time, is
\* armed and the record is not touched; otherwise the record is deleted, and
\* the discarded Timer never shows status running or failed afterwards.
C12_StartupRestoresOrDiscards ==
  /\ [][\A s \in 1..MaxStartups :
          ( /\ startup[s].pc = "alarmsRead"
            /\ startup[s].lost
            /\ startup'[s].pc = "done" )
          => IF startup[s].at.scheduledTime > now
             THEN /\ \E a \in alarms' :
                       /\ a.name = startup[s].at.alarmName
                       /\ a.when = startup[s].at.scheduledTime
                  /\ storage' = storage
             ELSE storage' = Null]_vars
  /\ [](\A s \in 1..MaxStartups :
          (startup[s].expired # 0 /\ storage.id = startup[s].expired)
            => storage.status \notin {"running", "failed"})

C12_Witness ==
  \E s \in 1..MaxStartups :
    /\ startup[s].pc = "done"
    /\ startup[s].expired # 0
    /\ storage = Null
    /\ cancelledIds = {}

\* C13 (as claimed): the Timer built by scheduleTimer fires at drop time
\* minus the requested search offset, for every offset, 0 included.
C13_FireTimeIsDropMinusOffset ==
  \A i \in 1..MaxSchedules :
    sched[i].timer # Null =>
      sched[i].timer.scheduledTime = sched[i].req.dropTime - sched[i].req.leadTimeMs

\* C14: when its cancelTimer() has returned, a scheduleTimer call whose
\* request has no drop time, or whose fire time is not after now, ends there:
\* the request is answered with success false and the reason, the step arms
\* no alarm and writes nothing, and the call has built no Timer, owns no alarm
\* and has persisted no record.
C14_RejectedArmsNothing ==
  [][\A i \in 1..MaxSchedules :
       ( /\ \/ sched[i].pc = "cancelLoaded" /\ sched[i].at = Null
            \/ sched[i].pc = "cancelDone"
         /\ sched'[i].pc \notin {sched[i].pc, "killed"}
         /\ \/ ~sched[i].req.hasDropTime
            \/ ScheduledTimeOf(sched[i].req) <= now )
       => /\ sched'[i].pc = "done"
          /\ sched'[i].resp =
               (IF sched[i].req.hasDropTime
                THEN "Scheduled time is in the past"
                ELSE "Drop time not specified")
          /\ alarms' = alarms
          /\ storage' = storage
          /\ sched[i].timer = Null
          /\ ~\E a \in alarms' : a.owner = i
          /\ storage'.id # i]_vars

C14_Witness ==
  /\ \E i \in 1..MaxSchedules : sched[i].resp = "Scheduled time is in the past"
  /\ \E i \in 1..MaxSchedules : sched[i].resp = "Drop time not specified"

\* C15: when the 5 s timer of waitForTabReload fires before the Timer's tab
\* has reported complete, the wait is rejected, no message is sent to the page
\* then or later, handleAlarmTrigger returns, and the Timer's status is failed.
C15_ReloadTimeoutFails ==
  /\ [][( /\ wait.timeoutArmed
          /\ ~wait'.timeoutArmed
          /\ ~wait'.settleArmed )
        => /\ wait'.rejects = 1
           /\ wait'.sent = 0
           /\ wait'.status = "failed"
           /\ wait'.pc = "done"]_vars
  /\ [](wait.rejects > 0 =>
          wait.sent = 0 /\ wait.status = "failed" /\ wait.pc = "done")

C15_Witness ==
  /\ wait.rejects = 1
  /\ wait.status = "failed"
  /\ wait.sent = 0
  /\ Len(wait.updates) = 2
  /\ wait.updates[1] = [tab |-> TheTab, status |-> "loading"]
  /\ wait.updates[2] = [tab |-> TheTab, status |-> "complete"]

\* C16: in one call of waitForTabReload resolve and reject are called at most
\* once between them and exactly once when no timer is left pending; the
\* listener is removed exactly once, at that moment; it is resolved only if the
\* Timer's tab reported complete; and an update that comes after the listener
\* is gone, or that is for another tab or not a completion, changes nothing.
TargetComplete == [tab |-> TheTab, status |-> "complete"]

C16_SettlesOnce ==
  /\ [](/\ wait.resolves + wait.rejects <= 1
        /\ wait.removes <= 1
        /\ wait.pc # "idle" => (wait.listening <=> wait.removes = 0)
        /\ (wait.pc # "idle" /\ ~wait.timeoutArmed /\ ~wait.settleArmed)
             => wait.resolves + wait.rejects = 1 /\ wait.removes = 1
        /\ wait.resolves > 0 =>
             \E k \in 1..Len(wait.updates) : wait.updates[k] = TargetComplete)
  /\ [][\A e \in UpdateEvents :
          ( /\ wait'.updates = Append(wait.updates, e)
            /\ ~wait.listening \/ e # TargetComplete )
          => wait' = [wait EXCEPT !.updates = wait'.updates]]_vars

C16_Witness ==
  /\ wait.resolves = 1
  /\ wait.rejects = 0
  /\ wait.removes = 1
  /\ wait.pc = "done"
  /\ wait.updates =
       <<[tab |-> OtherTab, status |-> "complete"], TargetComplete, TargetComplete>>


\* C17: the Tock tryMultipleDates selects a calendar date only if the date is
\* in the requested list and in the availability list parsed from the
\* calendar, and the dates it selects follow the order of the requested list.
RECURSIVE IsSubSeq(_, _)
IsSubSeq(s, t) ==
  IF s = <<>> THEN TRUE
  ELSE IF t = <<>> THEN FALSE
  ELSE IF Head(s) = Head(t) THEN IsSubSeq(Tail(s), Tail(t))
  ELSE IsSubSeq(s, Tail(t))

C17_ClicksOnlyRequestedAvailable ==
  probe.adapter = "tock" =>
    /\ \A k \in 1..Len(probe.clicked) :
         /\ probe.clicked[k] \in Elements(probe.desired)
         /\ probe.clicked[k] \in Elements(probe.available)
    /\ IsSubSeq(probe.clicked, probe.desired)

\* two dates were selected in turn while a third requested date, absent from
\* the parsed availability, was passed over
C17_Witness ==
  /\ probe.adapter = "tock"
  /\ probe.pc = "done"
  /\ Len(probe.clicked) >= 2
  /\ probe.clicked[1] # probe.clicked[2]
  /\ \E d \in Elements(probe.desired) : d \notin Elements(probe.available)


C20_TrueOnlyIfClicked ==
  /\ fill.result = "true" => fill.clicked > 0
  /\ fill.pc = "done" /\ fill.clicked = 0 => fill.result = "false"


\* C21: in every adapter, of the visible slots whose label shows a time the
\* one chosen has the preferred time if any has; otherwise it is at the least
\* distance in minutes from the preferred time, and no earlier slot of the
\* page is at that distance.
ClockMinutes(l) ==
  (l.hour % 12) * 60 + l.minute + (IF l.period = "PM" THEN 720 ELSE 0)

C22_RangeScanGivesAllDays ==
  /\ built.pc = "done"
  /\ built.useFirstAvailableAfter
  /\ built.hasMaxDays
  /\ built.selectedDates = <<>>
  /\ built.date # BadDate
  => /\ ~built.threw
     /\ Len(built.list) = 2 * built.maxDaysToScan + 1
     /\ built.list[1] = built.date
     /\ \A j, k \in 1..Len(built.list) : j # k => built.list[j] # built.list[k]
     /\ \A k \in 1..Len(built.list) :
          /\ built.list[k] >= built.date - built.maxDaysToScan
          /\ built.list[k] <= built.date + built.maxDaysToScan


\* C23: with a non-empty list of selected dates the result does not depend on
\* the scan flag or the scan radius: two calls that differ only in those
\* return the same list, the primary date followed by every selected date
\* not yet in the list, in the order of their first occurrence.
C23_SelectedDatesIgnoreRadius ==
  built.pc = "done" /\ built.selectedDates # <<>> =>
    LET sel == built.selectedDates
        firstAt(d) == CHOOSE k \in 1..Len(sel) :
                        sel[k] = d /\ \A j \in 1..(k - 1) : sel[j] # d
        n == Len(built.list)
    IN  /\ ~built.threw
        /\ built.list = built.twin
        /\ built.list[1] = built.date
        /\ Elements(built.list) = {built.date} \cup Elements(sel)
        /\ \A j, k \in 1..n : j # k => built.list[j] # built.list[k]
        /\ \A j, k \in 2..n : j < k => firstAt(built.list[j]) < firstAt(built.list[k])

\* selected dates given, one call with the scan on and radius 2, the other
\* with the scan off
C23_Witness ==
  /\ built.pc = "done"
  /\ Len(built.selectedDates) >= 2
  /\ built.useFirstAvailableAfter /\ built.hasMaxDays /\ built.maxDaysToScan = 2
  /\ ~built.twinFlag /\ built.twinRadius = 0
  /\ Len(built.list) >= 3

\* C24: whatever the preferences, the list that buildDesiredDatesList returns
\* starts with the primary date and holds no date twice.
C24_PrimaryFirstNoDuplicates ==
  built.pc = "done" /\ ~built.threw =>
    /\ built.list # <<>>
    /\ built.list[1] = built.date
    /\ \A j, k \in 1..Len(built.list) : j # k => built.list[j] # built.list[k]

\* the selected dates hold the primary date and one other date twice
C24_Witness ==
  /\ built.pc = "done"
  /\ Len(built.selectedDates) = 3
  /\ built.selectedDates[1] = built.date
  /\ built.selectedDates[2] = built.selectedDates[3]
  /\ built.selectedDates[2] # built.date
  /\ Len(built.list) = 2


\* C25 (as claimed): in one call of waitForAndClickBookButton the book
\* button is clicked at most once, and once it was clicked neither the
\* observer nor the poll nor the timer looks for it again.
C25_ClickedAtMostOnce ==
  /\ book.clicks <= 1
  /\ book.lookupsAfter = 0


\* C26 (as claimed): while the persisted Timer has status running, no other
\* operation issues a navigation of the Timer's tab; in particular no
\* scheduleTimer call issues chrome.tabs.update on that tab.
C26_NoNavigationWhileRunning ==
  [][\A i \in DOMAIN sched :
       sched[i].pc = "saved" /\ sched'[i].pc = "navigating" =>
         ~(/\ storage # Null
           /\ storage.status = "running"
           /\ storage.tabId = sched[i].req.tabId)]_vars

\* C27: a completion of the Timer's tab that is reported after the reload
\* command was issued is never missed: the wait is not rejected by its 5 s
\* timeout when such an update has been reported since the command.
C27_NoCompletionMissed ==
  [][wait'.rejects > wait.rejects =>
       \A k \in 1..Len(wait.updates) : wait.updates[k] # TargetComplete]_vars

\* C28: after every completed poll of GET_TIMER_STATUS the popup shows the
\* value the poll returned: no Timer when it returned null, else a Timer with
\* the same alarm name, status and fire time; in particular it does not go on
\* showing a scheduled Timer that is no longer persisted.
C28_PopupShowsPolledValue ==
  [][popup'.polls > popup.polls =>
       IF popup'.polled = Null THEN popup'.activeTimer = Null
       ELSE /\ popup'.activeTimer # Null
            /\ popup'.activeTimer.alarmName = popup'.polled.alarmName
            /\ popup'.activeTimer.status = popup'.polled.status
            /\ popup'.activeTimer.scheduledTime = popup'.polled.scheduledTime]_vars

\* C29: when a run of the start-up handler ends, a Timer is still persisted
\* only if its fire time lies in the future; a Timer whose fire time has
\* passed is gone, whatever its status.
C29_StartupKeepsOnlyFutureTimers ==
  [][\A s \in 1..MaxStartups :
       ( /\ startup[s].pc \in {"loaded", "alarmsRead"}
         /\ startup'[s].pc = "done"
         /\ storage' # Null )
       => storage'.scheduledTime > now']_vars

\* C30: with auto-refresh disabled, a run of the alarm handler that has
\* invoked the adapter and received its answer has reloaded the tab exactly
\* once and invoked the adapter exactly once; if the answer is a failure the
\* Timer's status is failed and the run arms no alarm.
C30_OneAttemptWithoutAutoRefresh ==
  [][\A h \in 1..MaxFires :
       ( /\ handler[h].pc = "messageSent"
         /\ handler'[h].pc = "done"
         /\ ~handler[h].autoRefresh )
       => /\ handler[h].reloads = 1
          /\ handler[h].adapterCalls = 1
          /\ storage'.status # "completed" =>
                storage'.status = "failed" /\ alarms' = alarms]_vars

\* C31: no waiting operation waits forever: a call of waitForTabReload that
\* has attached its listener is settled in the end, also when the tab never
\* reports complete.
C31_EveryWaitEnds == (plainWait.pc = "waiting") ~> (plainWait.pc = "done")

\* C32: the listener answers an AUTO_FILL_FORM message exactly once, with a
\* boolean success; when the adapter raised an exception the answer has
\* success false, and no exception leaves the listener.
C32_OneBooleanResponse ==
  /\ reply.responses <= 1
  /\ reply.responses = 1 <=> reply.pc = "done"
  /\ reply.pc = "done" =>
        /\ reply.success \in {"true", "false"}
        /\ reply.threw => reply.success = "false"

C32_Witness ==
  /\ reply.pc = "done"
  /\ reply.threw
  /\ ~reply.inner
  /\ reply.platform = "tock"
  /\ reply.responses = 1
  /\ reply.success = "false"

\* C33 (as claimed): in one call of waitForAndClickTimeSlot the slot is
\* clicked at most once, the promise is settled at most once, and once it is
\* settled the observer is disconnected and the 10 s timer is not pending.
C33_SettledMeansTimerCleared ==
  /\ slot.clicks <= 1
  /\ slot.settles <= 1
  /\ slot.resolved => ~slot.observing /\ ~slot.timeoutArmed

\* C33: in one call of waitForAndClickTimeSlot the slot is clicked at most
\* once and the promise is settled exactly once; whichever of observer, poll
\* and timer settles it disconnects the observer and clears the 10 s timer if
\* it is armed by then (it is not when the first check, which runs before
\* the timer is armed, settles the promise); callbacks that run later change
\* neither the clicks nor the settled value.
C33_ClickedOnceSettledOnce ==
  /\ [](/\ slot.clicks <= 1
        /\ slot.settles <= 1
        /\ slot.resolved <=> slot.settles = 1
        /\ slot.clicks = 1 => slot.value = "true"
        /\ slot.resolved => ~slot.observing
        /\ (slot.resolved /\ slot.timeoutArmed) => slot.by = "first"
        /\ (slot.pc = "running" /\ ~slot.timeoutArmed /\ ~slot.pollArmed)
             => slot.settles = 1)
  /\ [][slot.resolved =>
          /\ slot'.clicks = slot.clicks
          /\ slot'.settles = slot.settles
          /\ slot'.value = slot.value
          /\ slot'.resolved]_vars

C33_Witness ==
  /\ slot.by = "observer"
  /\ slot.clicks = 1
  /\ slot.settles = 1
  /\ slot.late = 1
  /\ ~slot.pollArmed
  /\ ~slot.timeoutArmed

\* C34: one call of Resy's clickTimeSlot clicks at most one time slot and
\* one call of clickReserveButton clicks the Reserve button at most once;
\* no time slot is clicked after clickTimeSlot's promise has been resolved.
C34_ResyClicksOnce ==
  /\ Len(resyClick.clicked) <= 1
  /\ resyClick.clicksAfter = 0
  /\ resyClick.reserveClicks <= 1

\* C35: a Timer that is persisted with status scheduled has its alarm armed
\* whenever no call and no handler run is in progress, so that the alarm can
\* still take it out of scheduled.
C35_ScheduledTimerHasAlarm ==
  ( /\ NobodyInFlight
    /\ storage # Null
    /\ storage.status = "scheduled" )
  => \E a \in alarms : a.name = storage.alarmName

\* C36: the start-up handler clears the persisted record only of a Timer
\* that is still scheduled: a record that the alarm handler has meanwhile set
\* to running, completed or failed is not deleted by it.
C36_StartupSparesStartedTimer ==
  [][\A s \in 1..MaxStartups :
       ( /\ startup[s].pc = "alarmsRead"
         /\ startup'[s].pc = "done"
         /\ storage # Null
         /\ storage' = Null )
       => storage.status = "scheduled"]_vars

\* C37: in the background script whose cancelTimer defers the deletion by a
\* second, the deferred deletion never removes the Timer that the replacing
\* scheduleTimer call has saved, and the alarm of a Timer that scheduleTimer
\* has returned finds its record when it fires.
C37_ReplacementSurvivesDeferredDeletion ==
  /\ [][(deferred'.pending < deferred.pending
          /\ deferred.record.status = "scheduled")
        => deferred'.record = deferred.record]_vars
  /\ [][(deferred'.missed \ deferred.missed) \cap deferred.returned = {}]_vars

\* C38: on a page of a supported site detectPlatform returns that site's
\* Platform value, and the adapter the content script builds there is the
\* site's own; a resy.com venue page gets the Resy adapter.
C38_SitePlatformDetected ==
  (reply.pc # "idle" /\ reply.site \in Adapters) =>
     /\ reply.platform = reply.site
     /\ reply.adapter # "none" => reply.adapter = FormFillerOf(reply.site)

\* C39: scheduleTimer looks the tab up only after the Timer is saved; on a
\* Tock tab with a restaurant in its path and a date, time and party size in
\* the preferences the tab is sent to
\* www.exploretock.com/<restaurant>/search with exactly those values; and
\* however the look-up, the URL building and the update end, the call
\* returns the timer, which is still persisted as scheduled with its alarm
\* armed.
C39_NavigationNeverFailsSchedule ==
  /\ nav.pc \in {"updating", "returned"} =>
        nav.persisted = "scheduled" /\ nav.armed
  /\ nav.pc = "returned" => nav.returned = "timer"
  /\ nav.navigatedTo # NoUrl =>
        /\ nav.updated = "ok"
        /\ nav.navigatedTo.host = <<"www", "exploretock", "com">>
        /\ Len(nav.navigatedTo.path) = 2
        /\ nav.navigatedTo.path[1] # ""
        /\ \E k \in 1..Len(nav.url.path) :
              /\ nav.url.path[k] = nav.navigatedTo.path[1]
              /\ \A j \in 1..(k - 1) : nav.url.path[j] = ""
        /\ nav.navigatedTo.path[2] = "search"
        /\ nav.navigatedTo.query =
             <<"date=" \o nav.prefs.date, "size=" \o nav.prefs.partySize,
               "time=" \o nav.prefs.time>>
        /\ nav.prefs.date # "" /\ nav.prefs.time # ""
        /\ nav.prefs.partySize # "undefined"
  /\ ( /\ nav.pc = "returned"
       /\ nav.updated # "threw"
       /\ nav.lookup = "url"
       /\ nav.url.host \in {<<"www", "exploretock", "com">>,
                            <<"www", "ExploreTock", "com">>}
       /\ \E k \in 1..Len(nav.url.path) : nav.url.path[k] # ""
       /\ nav.prefs.date # "" /\ nav.prefs.time # ""
       /\ nav.prefs.partySize # "undefined" )
     => nav.navigatedTo # NoUrl

C39_Witness ==
  /\ nav.pc = "returned"
  /\ nav.updated = "threw"
  /\ nav.caught
  /\ nav.returned = "timer"
  /\ nav.url.path = <<"", "tfl", "">>
  /\ nav.target.path = <<"tfl", "search">>
  /\ nav.target.query = <<"date=2025-11-07", "size=2", "time=20:00">>

====
